---- MODULE Spec2Model ----
(***************************************************************************)
(* Model of the NIKKE automation framework: the transition graph and       *)
(* session state of StateManager (src/src/core/state/manager.py), the      *)
(* rules of StateDetector (src/src/core/state/detection.py) and the        *)
(* navigation executor NikkeAutomation.navigate_to (src/src/main.py).      *)
(*                                                                         *)
(* Conventions                                                             *)
(*   - A Python string that the code inspects by prefix (an action         *)
(*     descriptor, a template identifier) is a sequence of tokens, so      *)
(*     that startswith and slicing are computed and not assumed:           *)
(*     "click_template:home/shop_icon" is <<"click_","template:",          *)
(*     "home/shop_icon">>.                                                 *)
(*   - Durations are in tenths of a second (2.0 s is 20).                  *)
(*   - Confidence scores and thresholds are in hundredths (0.7 is 70).     *)
(*   - The dict StateManager.transitions is a sequence of StateTransition  *)
(*     records in insertion order (the iteration order of a Python dict).  *)
(***************************************************************************)
EXTENDS Integers, Sequences, FiniteSets, TLC

VARIABLES
    current_state,      \* StateManager.current_state
    previous_state,     \* StateManager.previous_state ("None" until set)
    state_history,      \* StateManager.state_history: <<state, time>> pairs
    transitions,        \* StateManager.transitions, in insertion order
    stable_state_time,  \* StateManager.stable_state_time
    clock,              \* the readings of time.time() so far
    last_call,          \* the most recent interface call and what it returned
    templates,          \* TemplateMatcher.templates: the loaded identifiers
    state_definitions,  \* StateDetector.state_definitions, in insertion order
    pc,                 \* position of the running navigate_to call
    nav,                \* locals and event log of the navigate_to call
    gui                 \* NikkeAutomationGUI: buttons, stdout, threads, after

vars == <<current_state, previous_state, state_history, transitions,
          stable_state_time, clock, last_call, templates, state_definitions,
          pc, nav, gui>>

manager_vars == <<current_state, previous_state, state_history, transitions,
                  stable_state_time, clock, last_call>>

session_vars == <<current_state, previous_state, state_history,
                  stable_state_time, clock>>

(***************************************************************************)
(* Bounds of the model.                                                    *)
(***************************************************************************)
MaxTransitions == 8
MaxHistory == 2

(***************************************************************************)
(* GameState and the default transitions.                                  *)
(***************************************************************************)
GameState ==
    {"UNKNOWN", "HOME_SCREEN", "BATTLE", "SHOP", "INVENTORY", "MAIL",
     "LOADING", "LOGIN", "ERROR", "POPUP"}

NoState == "None"

ClickTemplate(x) == <<"click_", "template:", x>>

Wait(n) == <<"wait:", n>>

StateTransition(from_state, to_state, action_sequence, expected_duration) ==
    [from_state |-> from_state, to_state |-> to_state,
     action_sequence |-> action_sequence,
     expected_duration |-> expected_duration]

RECURSIVE IndexOfKey(_, _, _, _)
IndexOfKey(T, from_state, to_state, i) ==
    IF i > Len(T) THEN 0
    ELSE IF T[i].from_state = from_state /\ T[i].to_state = to_state THEN i
    ELSE IndexOfKey(T, from_state, to_state, i + 1)

\* A lost update: the first registration of a pair wins.
register_keep_first(T, from_state, to_state, action_sequence, expected_duration) ==
    LET transition == StateTransition(from_state, to_state, action_sequence,
                                      expected_duration)
        i == IndexOfKey(T, from_state, to_state, 1)
    IN  IF i = 0 THEN Append(T, transition) ELSE T

\* self.transitions[(from_state, to_state)] = transition
register_transition(T, from_state, to_state, action_sequence, expected_duration) ==
    LET transition == StateTransition(from_state, to_state, action_sequence,
                                      expected_duration)
        i == IndexOfKey(T, from_state, to_state, 1)
    IN  IF i = 0 THEN Append(T, transition)
        ELSE [T EXCEPT ![i] = transition]

DefaultTransitions ==
    LET t1 == register_transition(<<>>, "HOME_SCREEN", "SHOP",
                  <<ClickTemplate("home/shop_icon")>>, 20)
        t2 == register_transition(t1, "SHOP", "HOME_SCREEN",
                  <<ClickTemplate("common/return_home")>>, 15)
        t3 == register_transition(t2, "POPUP", "UNKNOWN",
                  <<ClickTemplate("common/close_button"),
                    ClickTemplate("common/confirm_button"),
                    ClickTemplate("common/empty_area")>>, 10)
        t4 == register_transition(t3, "ERROR", "HOME_SCREEN",
                  <<ClickTemplate("common/confirm_button"), Wait("2.0")>>, 30)
        t5 == register_transition(t4, "UNKNOWN", "HOME_SCREEN",
                  <<ClickTemplate("common/return_home"), Wait("1.0"),
                    ClickTemplate("common/close_button"), Wait("0.5"),
                    ClickTemplate("common/confirm_button"), Wait("0.5")>>, 30)
    IN  t5

(***************************************************************************)
(* StateManager.find_path: breadth-first search, as the code runs it.      *)
(***************************************************************************)
NonePath == [is_none |-> TRUE, list |-> <<>>]

SomePath(p) == [is_none |-> FALSE, list |-> p]

RECURSIVE ScanTransitionsMarkSource(_, _, _, _, _, _, _)
\* The state being expanded is marked as visited instead of the state found.
ScanTransitionsMarkSource(T, target_state, state, path, i, queue, visited) ==
    IF i > Len(T) THEN [found |-> FALSE, path |-> <<>>,
                        queue |-> queue, visited |-> visited]
    ELSE IF T[i].from_state = state /\ T[i].to_state \notin visited
         THEN LET new_path == Append(path, T[i])
              IN  IF T[i].to_state = target_state
                  THEN [found |-> TRUE, path |-> new_path,
                        queue |-> queue, visited |-> visited]
                  ELSE ScanTransitionsMarkSource(T, target_state, state, path,
                           i + 1,
                           Append(queue, [state |-> T[i].to_state,
                                          path |-> new_path]),
                           visited \cup {state})
         ELSE ScanTransitionsMarkSource(T, target_state, state, path, i + 1,
                                        queue, visited)

RECURSIVE ScanTransitions(_, _, _, _, _, _, _)
\* for (from_s, to_s), transition in self.transitions.items(): ...
ScanTransitions(T, target_state, state, path, i, queue, visited) ==
    IF i > Len(T) THEN [found |-> FALSE, path |-> <<>>,
                        queue |-> queue, visited |-> visited]
    ELSE IF T[i].from_state = state /\ T[i].to_state \notin visited
         THEN LET new_path == Append(path, T[i])
              IN  IF T[i].to_state = target_state
                  THEN [found |-> TRUE, path |-> new_path,
                        queue |-> queue, visited |-> visited]
                  ELSE ScanTransitions(T, target_state, state, path, i + 1,
                           Append(queue, [state |-> T[i].to_state,
                                          path |-> new_path]),
                           visited \cup {T[i].to_state})
         ELSE ScanTransitions(T, target_state, state, path, i + 1,
                              queue, visited)

RECURSIVE SearchQueue(_, _, _, _)
\* while queue: state, path = queue.pop(0) ...
SearchQueue(T, target_state, queue, visited) ==
    IF queue = <<>> THEN NonePath
    ELSE LET r == ScanTransitions(T, target_state, Head(queue).state,
                                  Head(queue).path, 1, Tail(queue), visited)
         IN  IF r.found THEN SomePath(r.path)
             ELSE SearchQueue(T, target_state, r.queue, r.visited)

RECURSIVE SearchStack(_, _, _, _)
\* A depth-first variant: the most recently discovered state is expanded first.
SearchStack(T, target_state, queue, visited) ==
    IF queue = <<>> THEN NonePath
    ELSE LET n == Len(queue)
             r == ScanTransitions(T, target_state, queue[n].state,
                                  queue[n].path, 1, SubSeq(queue, 1, n - 1),
                                  visited)
         IN  IF r.found THEN SomePath(r.path)
             ELSE SearchStack(T, target_state, r.queue, r.visited)

find_path_dfs(T, cur, target_state) ==
    IF cur = target_state THEN SomePath(<<>>)
    ELSE SearchStack(T, target_state, <<[state |-> cur, path |-> <<>>]>>, {cur})

\* Only the edges leaving the current state are considered.
find_path_one_hop(T, cur, target_state) ==
    IF cur = target_state THEN SomePath(<<>>)
    ELSE LET r == ScanTransitions(T, target_state, cur, <<>>, 1, <<>>, {cur})
         IN  IF r.found THEN SomePath(r.path) ELSE NonePath

\* The early return for the current state is missing.
find_path_no_shortcut(T, cur, target_state) ==
    SearchQueue(T, target_state, <<[state |-> cur, path |-> <<>>]>>, {cur})

find_path(T, cur, target_state) ==
    IF cur = target_state THEN SomePath(<<>>)
    ELSE SearchQueue(T, target_state, <<[state |-> cur, path |-> <<>>]>>, {cur})

can_transition_to(T, cur, target_state) ==
    ~ find_path(T, cur, target_state).is_none

RECURSIVE AddReachable(_, _, _, _)
\* for (from_s, to_s) in self.transitions.keys(): if from_s == current: add to_s
AddReachable(T, cur, i, reachable) ==
    IF i > Len(T) THEN reachable
    ELSE AddReachable(T, cur, i + 1,
             IF T[i].from_state = cur THEN reachable \cup {T[i].to_state}
             ELSE reachable)

\* Every state to which some path leads, however long.
get_reachable_states_closure(T, cur) ==
    { s \in GameState : can_transition_to(T, cur, s) }

get_reachable_states(T, cur) == AddReachable(T, cur, 1, {cur})

(***************************************************************************)
(* StateManager.update_state and the state after construction.             *)
(***************************************************************************)
\* The history entry is appended but current_state keeps its old value.
update_state_stale(new_state) ==
    IF new_state = current_state
    THEN UNCHANGED session_vars
    ELSE /\ clock' = clock + 1
         /\ previous_state' = current_state
         /\ current_state' = current_state
         /\ state_history' = Append(state_history, <<new_state, clock'>>)
         /\ stable_state_time' = clock'

\* The state that is left is not recorded as the previous one.
update_state_no_previous(new_state) ==
    IF new_state = current_state
    THEN UNCHANGED session_vars
    ELSE /\ clock' = clock + 1
         /\ previous_state' = previous_state
         /\ current_state' = new_state
         /\ state_history' = Append(state_history, <<new_state, clock'>>)
         /\ stable_state_time' = clock'

\* Every call is recorded, also one that does not change the state.
update_state_always(new_state) ==
    /\ clock' = clock + 1
    /\ previous_state' = current_state
    /\ current_state' = new_state
    /\ state_history' = Append(state_history, <<new_state, clock'>>)
    /\ stable_state_time' = clock'

\* The history records the state that was left, not the one entered.
update_state_push_old(new_state) ==
    IF new_state = current_state
    THEN UNCHANGED session_vars
    ELSE /\ clock' = clock + 1
         /\ previous_state' = current_state
         /\ current_state' = new_state
         /\ state_history' = Append(state_history, <<current_state, clock'>>)
         /\ stable_state_time' = clock'

\* current_time = time.time() is the next reading of the clock.
update_state(new_state) ==
    IF new_state = current_state
    THEN UNCHANGED session_vars
    ELSE /\ clock' = clock + 1
         /\ previous_state' = current_state
         /\ current_state' = new_state
         /\ state_history' = Append(state_history, <<new_state, clock'>>)
         /\ stable_state_time' = clock'

NoCall == [op |-> "none"]

ManagerInit ==
    /\ current_state = "UNKNOWN"
    /\ previous_state = NoState
    /\ state_history = <<>>
    /\ transitions = DefaultTransitions
    /\ stable_state_time = 0
    /\ clock = 0
    /\ last_call = NoCall

(***************************************************************************)
(* The calls of the StateManager interface, with inputs from small sets.   *)
(***************************************************************************)
ClickOf(x) == <<"click_", x>>

\* A replacement of the default HOME_SCREEN -> SHOP transition whose click
\* actions name their templates right after "click_".
ShopByClicks ==
    StateTransition("HOME_SCREEN", "SHOP",
        <<ClickOf("home/shop_icon"), ClickOf("common/empty_area"),
          Wait("2.0"), ClickOf("common/confirm_button")>>, 20)

RegInputs ==
    { StateTransition("ERROR", "BATTLE", <<ClickOf("battle/start")>>, 20),
      StateTransition("BATTLE", "POPUP", <<ClickTemplate("battle/back_button")>>, 20),
      StateTransition("POPUP", "SHOP", <<Wait("1.0")>>, 10),
      StateTransition("HOME_SCREEN", "HOME_SCREEN", <<>>, 5),
      ShopByClicks }

NavRegInputs ==
    { StateTransition("SHOP", "BATTLE", <<ClickOf("battle/start")>>, 20),
      ShopByClicks }

StateInputs == {"UNKNOWN", "HOME_SCREEN", "ERROR", "LOADING"}

QueryTargets == {"UNKNOWN", "HOME_SCREEN", "SHOP", "POPUP", "LOADING"}

NavTargets == {"HOME_SCREEN", "SHOP", "BATTLE", "MAIL"}

RegisterTransition(t) ==
    /\ pc = "idle"
    /\ \/ IndexOfKey(transitions, t.from_state, t.to_state, 1) # 0
       \/ Len(transitions) < MaxTransitions
    /\ transitions' = register_transition(transitions, t.from_state, t.to_state,
                          t.action_sequence, t.expected_duration)
    /\ last_call' = [op |-> "register_transition", arg |-> t]
    /\ UNCHANGED <<session_vars, templates, gui, state_definitions, pc, nav>>

UpdateState(new_state) ==
    /\ pc = "idle"
    /\ new_state = current_state \/ Len(state_history) < MaxHistory
    /\ update_state(new_state)
    /\ last_call' = [op |-> "update_state", arg |-> new_state,
                     ret |-> (new_state # current_state)]
    /\ UNCHANGED <<transitions, templates, gui, state_definitions, pc, nav>>

FindPath(target_state) ==
    /\ pc = "idle"
    /\ last_call' = [op |-> "find_path", arg |-> target_state,
                     ret |-> find_path(transitions, current_state, target_state)]
    /\ UNCHANGED <<session_vars, transitions, templates, gui, state_definitions, pc, nav>>

CanTransitionTo(target_state) ==
    /\ pc = "idle"
    /\ last_call' = [op |-> "can_transition_to", arg |-> target_state,
                     ret |-> can_transition_to(transitions, current_state,
                                               target_state)]
    /\ UNCHANGED <<session_vars, transitions, templates, gui, state_definitions, pc, nav>>

GetReachableStates ==
    /\ pc = "idle"
    /\ last_call' = [op |-> "get_reachable_states",
                     ret |-> get_reachable_states(transitions, current_state)]
    /\ UNCHANGED <<session_vars, transitions, templates, gui, state_definitions, pc, nav>>

(***************************************************************************)
(* TemplateMatcher: the template store, a captured frame and the single    *)
(* best match.  A frame is its shape and the places where a template       *)
(* correlates with it (elsewhere the correlation is 0).                    *)
(***************************************************************************)
Tid(x) == <<x>>

Shape(h, w) == [h |-> h, w |-> w]

AssetTemplates ==
    [n \in {Tid("home/menu_button"), Tid("home/shop_button"),
            Tid("home/shop_icon"), Tid("battle/battle_ui"),
            Tid("battle/back_button"), Tid("shop/shop_title"),
            Tid("shop/purchase_button"), Tid("common/loading_indicator"),
            Tid("common/error_icon"), Tid("common/error_message"),
            Tid("common/return_home"), Tid("common/close_button"),
            Tid("common/confirm_button"), Tid("common/empty_area")}
     |-> IF n = Tid("common/empty_area") THEN Shape(2, 8) ELSE Shape(2, 2)]

Sprite(name, x, y, score) == [name |-> Tid(name), x |-> x, y |-> y, score |-> score]

Image(sprites) == [shape |-> Shape(3, 4), sprites |-> sprites, raised |-> FALSE]

ImgHome ==
    Image({Sprite("home/menu_button", 0, 0, 90), Sprite("home/shop_button", 2, 0, 90),
           Sprite("home/shop_icon", 2, 1, 85), Sprite("common/confirm_button", 0, 1, 60)})

ImgShop ==
    Image({Sprite("shop/shop_title", 0, 0, 90), Sprite("common/return_home", 2, 0, 80),
           Sprite("common/confirm_button", 1, 1, 95)})

ImgError ==
    Image({Sprite("common/error_icon", 0, 0, 80), Sprite("common/confirm_button", 1, 1, 95)})

ImgBattle ==
    Image({Sprite("battle/battle_ui", 0, 0, 90), Sprite("battle/back_button", 2, 0, 75)})

ImgBlank == Image({})

Images == {ImgHome, ImgShop, ImgError, ImgBattle, ImgBlank}

CaptureError == [shape |-> Shape(0, 0), sprites |-> {}, raised |-> TRUE]

CaptureOutcomes == Images \cup {CaptureError}

\* cv2.matchTemplate: the score surface, cols x rows values over the top-left
\* positions <<x, y>>.
matchTemplate(image, template_name, template, method) ==
    [cols |-> image.shape.w - template.w + 1,
     rows |-> image.shape.h - template.h + 1,
     at |-> [p \in (0 .. image.shape.w - template.w) \X
                   (0 .. image.shape.h - template.h) |->
                LET here == {s \in image.sprites :
                                s.name = template_name /\ s.x = p[1] /\ s.y = p[2]}
                    corr == IF here = {} THEN 0 ELSE (CHOOSE s \in here : TRUE).score
                IN  IF method = "SQDIFF" THEN 100 - corr ELSE corr]]

\* The k-th place of the surface in row-major order, counted from 0.
PlaceOf(result, k) == <<k % result.cols, k \div result.cols>>

\* The extremes of the one place p, whose value is v.
ExtremesAt(p, v) ==
    [min_val |-> v, min_loc |-> p, max_val |-> v, max_loc |-> p]

\* The extremes of two runs of places, a before b: of equal values the
\* earlier place is kept.
FirstExtremes(a, b) ==
    [min_val |-> IF b.min_val < a.min_val THEN b.min_val ELSE a.min_val,
     min_loc |-> IF b.min_val < a.min_val THEN b.min_loc ELSE a.min_loc,
     max_val |-> IF b.max_val > a.max_val THEN b.max_val ELSE a.max_val,
     max_loc |-> IF b.max_val > a.max_val THEN b.max_loc ELSE a.max_loc]

RECURSIVE ScanSurface(_, _, _)
\* The extremes over the places lo .. hi in row-major order.
ScanSurface(result, lo, hi) ==
    IF lo = hi
    THEN ExtremesAt(PlaceOf(result, lo), result.at[PlaceOf(result, lo)])
    ELSE FirstExtremes(ScanSurface(result, lo, (lo + hi) \div 2),
                       ScanSurface(result, (lo + hi) \div 2 + 1, hi))

\* cv2.minMaxLoc: the extreme values and the first place of each.
minMaxLoc(result) == ScanSurface(result, 0, result.cols * result.rows - 1)

NoMatch == [found |-> FALSE]

TemplateMatch(top_left, bottom_right, confidence, template_name, method) ==
    [found |-> TRUE, top_left |-> top_left, bottom_right |-> bottom_right,
     confidence |-> confidence, template_name |-> template_name,
     method |-> method]

center(m) ==
    <<(m.top_left[1] + m.bottom_right[1]) \div 2,
      (m.top_left[2] + m.bottom_right[2]) \div 2>>

\* The score is taken as if every method were correlation-style.
BestMatchRaw(mm, template, template_name, method, threshold) ==
    IF mm.max_val < threshold THEN NoMatch
    ELSE TemplateMatch(mm.max_loc,
                       <<mm.max_loc[1] + template.w, mm.max_loc[2] + template.h>>,
                       mm.max_val, template_name, method)

\* find_template, lines 224-243: the best place of the surface, accepted at
\* the threshold.  mm is what cv2.minMaxLoc returned.
BestMatch(mm, template, template_name, method, threshold) ==
    LET invert_score == (method = "SQDIFF")
        score == IF invert_score THEN 100 - mm.min_val ELSE mm.max_val
        loc == IF invert_score THEN mm.min_loc ELSE mm.max_loc
    IN  IF score < threshold THEN NoMatch
        ELSE TemplateMatch(loc, <<loc[1] + template.w, loc[2] + template.h>>,
                           score, template_name, method)

\* find_template, lines 173-181: the template against the frame.
MatchLoaded(template, image, template_name, method, threshold) ==
    IF template.h > image.shape.h \/ template.w > image.shape.w
    THEN NoMatch
    ELSE BestMatch(minMaxLoc(matchTemplate(image, template_name, template, method)),
                   template, template_name, method, threshold)

\* An identifier that is not loaded is looked up as the shop icon.
find_template_fallback(tpls, image, template_name, method, threshold) ==
    IF template_name \notin DOMAIN tpls
    THEN MatchLoaded(tpls[<<"home/shop_icon">>], image, <<"home/shop_icon">>,
                     method, threshold)
    ELSE MatchLoaded(tpls[template_name], image, template_name, method, threshold)

\* find_template with multiple=False.
find_template(tpls, image, template_name, method, threshold) ==
    IF template_name \notin DOMAIN tpls THEN NoMatch
    ELSE MatchLoaded(tpls[template_name], image, template_name, method, threshold)

(***************************************************************************)
(* find_template with multiple=True: the best place is taken, the surface  *)
(* around it is overwritten with 0, and the search is repeated.            *)
(***************************************************************************)
mask_size == 5

\* cv2.rectangle(result, pt1, pt2, 0, -1): the filled rectangle with the
\* corners pt1 and pt2, both inclusive, clipped to the surface.
rectangle(result, pt1, pt2, color) ==
    [result EXCEPT !.at =
        [p \in DOMAIN result.at |->
            IF /\ pt1[1] <= p[1] /\ p[1] <= pt2[1]
               /\ pt1[2] <= p[2] /\ p[2] <= pt2[2]
            THEN color ELSE result.at[p]]]

Max2(a, b) == IF a > b THEN a ELSE b

Min2(a, b) == IF a < b THEN a ELSE b

\* lines 212-220: the surface after the place loc was masked out.
MaskOut(result, loc, template) ==
    rectangle(result,
              <<Max2(0, loc[1] - mask_size), Max2(0, loc[2] - mask_size)>>,
              <<Min2(result.cols, loc[1] + template.w + mask_size),
                Min2(result.rows, loc[2] + template.h + mask_size)>>,
              0)

RECURSIVE MatchLoop(_, _, _, _, _, _, _)
RECURSIVE AcceptMatch(_, _, _, _, _, _, _, _)
\* lines 196-220: below the threshold the loop ends; otherwise the match is
\* appended and its place masked out.
AcceptMatch(match, result, template, template_name, method, threshold, max_results, matches) ==
    IF ~ match.found THEN matches
    ELSE MatchLoop(MaskOut(result, match.top_left, template), template,
                   template_name, method, threshold, max_results,
                   Append(matches, match))

\* lines 189-194: while len(matches) < max_results
MatchLoop(result, template, template_name, method, threshold, max_results, matches) ==
    IF Len(matches) >= max_results THEN matches
    ELSE AcceptMatch(BestMatch(minMaxLoc(result), template, template_name,
                               method, threshold),
                     result, template, template_name, method, threshold,
                     max_results, matches)

\* find_template, lines 173-222, with multiple=True.
MatchesLoaded(template, image, template_name, method, threshold, max_results) ==
    IF template.h > image.shape.h \/ template.w > image.shape.w
    THEN <<>>
    ELSE MatchLoop(matchTemplate(image, template_name, template, method),
                   template, template_name, method, threshold, max_results, <<>>)

find_template_multiple(tpls, image, template_name, method, threshold, max_results) ==
    IF template_name \notin DOMAIN tpls THEN <<>>
    ELSE MatchesLoaded(tpls[template_name], image, template_name, method,
                       threshold, max_results)

(***************************************************************************)
(* The calls of the TemplateMatcher interface, with inputs from small sets.*)
(***************************************************************************)
Frame(h, w, sprites) == [shape |-> Shape(h, w), sprites |-> sprites, raised |-> FALSE]

\* Five shop icons in a row, eight pixels apart, all with the same score.
FrameRow ==
    Frame(2, 40, { Sprite("home/shop_icon", x, 0, 90) : x \in {1, 9, 17, 25, 33} })

\* Two places of the empty area, which is 8 wide, six pixels apart.
FrameNear ==
    Frame(2, 24, {Sprite("common/empty_area", 10, 0, 95),
                  Sprite("common/empty_area", 4, 0, 90)})

\* Two shop icons of different scores, far apart.
FrameTwo ==
    Frame(3, 20, {Sprite("home/shop_icon", 2, 1, 70),
                  Sprite("home/shop_icon", 14, 0, 85)})

MatchFrames == {FrameRow, FrameNear, FrameTwo, ImgHome, ImgBlank}

MatchNames == {Tid("home/shop_icon"), Tid("common/empty_area"), Tid("missing/icon")}

MatchMethod == {"EXACT", "SQDIFF", "CCORR"}

Thresholds == {0, 50, 80, 100}

MaxResults == {1, 3}

\* What a find_template call leaves.
Found(image, template_name, method, threshold, multiple, max_results, ret) ==
    [op |-> "find_template", image |-> image, template_name |-> template_name,
     method |-> method, threshold |-> threshold, multiple |-> multiple,
     max_results |-> max_results, ret |-> ret]

FindTemplate(image, template_name, method, threshold) ==
    /\ pc = "idle"
    /\ last_call' = Found(image, template_name, method, threshold, FALSE, 5,
                          find_template(templates, image, template_name, method,
                                        threshold))
    /\ UNCHANGED <<session_vars, transitions, templates, gui, state_definitions,
                   pc, nav>>

FindTemplateMultiple(image, template_name, method, threshold, max_results) ==
    /\ pc = "idle"
    /\ last_call' = Found(image, template_name, method, threshold, TRUE,
                          max_results,
                          find_template_multiple(templates, image, template_name,
                                                 method, threshold, max_results))
    /\ UNCHANGED <<session_vars, transitions, templates, gui, state_definitions,
                   pc, nav>>

(***************************************************************************)
(* StateDetector: the rules and detect_state.                              *)
(***************************************************************************)
Rule(state, required_templates, confidence_threshold, match_all) ==
    [state |-> state, required_templates |-> required_templates,
     confidence_threshold |-> confidence_threshold, match_all |-> match_all]

DefaultStateDefinitions ==
    << Rule("HOME_SCREEN", <<Tid("home/menu_button"), Tid("home/shop_button")>>, 80, TRUE),
       Rule("BATTLE", <<Tid("battle/battle_ui"), Tid("battle/back_button")>>, 70, TRUE),
       Rule("SHOP", <<Tid("shop/shop_title"), Tid("shop/purchase_button")>>, 75, FALSE),
       Rule("LOADING", <<Tid("common/loading_indicator")>>, 60, TRUE),
       Rule("ERROR", <<Tid("common/error_icon"), Tid("common/error_message")>>, 70, FALSE) >>

\* lines 83-85: if match: matched_templates += 1; total_confidence += match.confidence
AddMatch(acc, match) ==
    IF match.found
    THEN [matched_templates |-> acc.matched_templates + 1,
          total_confidence |-> acc.total_confidence + match.confidence]
    ELSE acc

RECURSIVE MatchRequired(_, _, _, _, _)
\* lines 72-85: for template_name in required_templates
MatchRequired(tpls, image, definition, i, acc) ==
    IF i > Len(definition.required_templates) THEN acc
    ELSE MatchRequired(tpls, image, definition, i + 1,
             AddMatch(acc, find_template(tpls, image,
                               definition.required_templates[i], "EXACT",
                               definition.confidence_threshold)))

\* match_all is ignored: one matched template is enough for any rule.
CandidateAny(definition, m) ==
    IF m.matched_templates > 0
    THEN <<[state |-> definition.state, total |-> m.total_confidence,
            matched |-> m.matched_templates]>>
    ELSE <<>>

\* The average is taken over the required templates, found or not.
CandidateOverRequired(definition, m) ==
    IF /\ m.matched_templates > 0
       /\ \/ (definition.match_all /\
              m.matched_templates = Len(definition.required_templates))
          \/ (~ definition.match_all /\ m.matched_templates > 0)
    THEN <<[state |-> definition.state, total |-> m.total_confidence,
            matched |-> Len(definition.required_templates)]>>
    ELSE <<>>

\* lines 88-94: the state is entered in state_confidence when enough of its
\* templates matched; the average is kept as total / matched.
Candidate(definition, m) ==
    IF /\ m.matched_templates > 0
       /\ \/ (definition.match_all /\
              m.matched_templates = Len(definition.required_templates))
          \/ (~ definition.match_all /\ m.matched_templates > 0)
    THEN <<[state |-> definition.state, total |-> m.total_confidence,
            matched |-> m.matched_templates]>>
    ELSE <<>>

RECURSIVE StateConfidence(_, _, _, _)
\* lines 64-94: the dict state_confidence, in insertion order.
StateConfidence(defs, tpls, image, i) ==
    IF i > Len(defs) THEN <<>>
    ELSE Candidate(defs[i], MatchRequired(tpls, image, defs[i], 1,
                       [matched_templates |-> 0, total_confidence |-> 0]))
         \o StateConfidence(defs, tpls, image, i + 1)

\* a.total / a.matched < b.total / b.matched
LessConfident(a, b) == a.total * b.matched < b.total * a.matched

\* Of several items of the highest average the last one is taken.
BestStateLast(conf) ==
    LET i == CHOOSE k \in 1 .. Len(conf) :
                /\ \A j \in 1 .. Len(conf) : ~ LessConfident(conf[k], conf[j])
                /\ \A j \in (k + 1) .. Len(conf) : LessConfident(conf[j], conf[k])
    IN  conf[i].state

\* max(state_confidence.items(), key=...): the first item of the highest average.
BestState(conf) ==
    LET i == CHOOSE k \in 1 .. Len(conf) :
                /\ \A j \in 1 .. Len(conf) : ~ LessConfident(conf[k], conf[j])
                /\ \A j \in 1 .. (k - 1) : LessConfident(conf[j], conf[k])
    IN  conf[i].state

\* Without a candidate the home screen is assumed.
SelectStateAssumeHome(state_confidence) ==
    IF state_confidence = <<>> THEN "HOME_SCREEN" ELSE BestState(state_confidence)

\* lines 96-104
SelectState(state_confidence) ==
    IF state_confidence = <<>> THEN "UNKNOWN" ELSE BestState(state_confidence)

detect_state(defs, tpls, screen_image) ==
    SelectState(StateConfidence(defs, tpls, screen_image, 1))

RECURSIVE IndexOfState(_, _, _)
IndexOfState(defs, state, i) ==
    IF i > Len(defs) THEN 0
    ELSE IF defs[i].state = state THEN i
    ELSE IndexOfState(defs, state, i + 1)

\* self.state_definitions[state] = {...}: a key that is already in the dict
\* keeps its place, a new key goes to the end.
register_state_definition(defs, state, required_templates, confidence_threshold, match_all) ==
    LET definition == Rule(state, required_templates, confidence_threshold,
                           match_all)
        i == IndexOfState(defs, state, 1)
    IN  IF i = 0 THEN Append(defs, definition)
        ELSE [defs EXCEPT ![i] = definition]

(***************************************************************************)
(* The calls of the StateDetector interface, with inputs from small sets.  *)
(***************************************************************************)
RuleInputs ==
    { Rule("MAIL", <<Tid("home/menu_button"), Tid("shop/shop_title")>>, 70, FALSE),
      Rule("HOME_SCREEN", <<Tid("home/menu_button"), Tid("home/shop_button")>>,
           85, TRUE),
      Rule("SHOP", <<Tid("shop/shop_title"), Tid("shop/purchase_button")>>, 75, TRUE),
      Rule("UNKNOWN", <<Tid("common/close_button"), Tid("common/confirm_button")>>,
           70, TRUE),
      Rule("INVENTORY", <<Tid("inventory/bag")>>, 70, FALSE) }

\* The home screen with the title of the shop on it.
ImgTie ==
    Image({Sprite("home/menu_button", 0, 0, 90), Sprite("home/shop_button", 2, 0, 90),
           Sprite("shop/shop_title", 1, 1, 90)})

\* The home screen under an error icon.
ImgLate ==
    Image({Sprite("home/menu_button", 0, 0, 86), Sprite("home/shop_button", 2, 0, 86),
           Sprite("common/error_icon", 1, 1, 95)})

\* A battle with the menu button of the home screen on it.
ImgHalf ==
    Image({Sprite("home/menu_button", 0, 0, 99), Sprite("battle/battle_ui", 2, 0, 72),
           Sprite("battle/back_button", 1, 1, 72)})

\* The title of the shop and a faint menu button.
ImgAvg ==
    Image({Sprite("shop/shop_title", 0, 0, 85), Sprite("home/menu_button", 2, 0, 71)})

\* A dialog with both of its buttons, and one with the close button only.
ImgPopup ==
    Image({Sprite("common/close_button", 0, 0, 90),
           Sprite("common/confirm_button", 2, 0, 90)})

ImgClose == Image({Sprite("common/close_button", 0, 0, 90)})

DetectImages ==
    {ImgHome, ImgShop, ImgError, ImgBlank, ImgTie, ImgLate, ImgHalf, ImgAvg,
     ImgPopup, ImgClose}

RegisterStateDefinition(r) ==
    /\ pc = "idle"
    /\ state_definitions' =
           register_state_definition(state_definitions, r.state,
               r.required_templates, r.confidence_threshold, r.match_all)
    /\ last_call' = [op |-> "register_state_definition", arg |-> r]
    /\ UNCHANGED <<session_vars, transitions, templates, gui, pc, nav>>

\* What a detect_state call leaves: the dict state_confidence it built and the
\* state it returned.
Detection(screen_image, state_confidence) ==
    [op |-> "detect_state", arg |-> screen_image,
     state_confidence |-> state_confidence,
     ret |-> SelectState(state_confidence)]

DetectState(screen_image) ==
    /\ pc = "idle"
    /\ last_call' = Detection(screen_image,
                         StateConfidence(state_definitions, templates,
                                         screen_image, 1))
    /\ UNCHANGED <<session_vars, transitions, templates, gui, state_definitions,
                   pc, nav>>

\* StateDetector.verify_state: detect_state and the comparison.
verify_state(defs, tpls, expected_state, screen_image) ==
    detect_state(defs, tpls, screen_image) = expected_state

\* verify_state stores the state it detected in the state manager.
VerifyStateStores(expected_state, screen_image) ==
    /\ pc = "idle"
    /\ update_state(detect_state(state_definitions, templates, screen_image))
    /\ last_call' = [op |-> "verify_state",
                     arg |-> <<expected_state, screen_image>>,
                     ret |-> (current_state' = expected_state)]
    /\ UNCHANGED <<transitions, templates, gui, state_definitions, pc, nav>>

VerifyState(expected_state, screen_image) ==
    /\ pc = "idle"
    /\ last_call' = [op |-> "verify_state",
                     arg |-> <<expected_state, screen_image>>,
                     ret |-> verify_state(state_definitions, templates,
                                          expected_state, screen_image)]
    /\ UNCHANGED <<session_vars, transitions, templates, gui, state_definitions,
                   pc, nav>>

(***************************************************************************)
(* NikkeAutomation.update_state, the detection cycle: capture, detect_state *)
(* and StateManager.update_state.                                          *)
(***************************************************************************)
\* screen_capture.capture() raised: nothing else of the cycle runs.
CycleRaised ==
    /\ last_call' = [op |-> "detection_cycle", raised |-> TRUE]
    /\ UNCHANGED session_vars

\* lines 121-129: the detected state goes to the state manager and is returned.
CycleDetected(detected_state) ==
    /\ update_state(detected_state)
    /\ last_call' = [op |-> "detection_cycle", raised |-> FALSE,
                     ret |-> detected_state]

DetectionCycle(capture) ==
    /\ pc = "idle"
    /\ Len(state_history) < MaxHistory
    /\ IF capture.raised
       THEN CycleRaised
       ELSE CycleDetected(detect_state(state_definitions, templates, capture))
    /\ UNCHANGED <<transitions, templates, gui, state_definitions, pc, nav>>

(***************************************************************************)
(* NikkeAutomation: _execute_action and navigate_to.  The call is in steps *)
(* that end where the environment is consulted (a capture, a sleep); nav   *)
(* holds the locals of the call and the log of what it did.                *)
(***************************************************************************)
ActionThreshold == 70

StartsWith(s, prefix) ==
    Len(s) >= Len(prefix) /\ SubSeq(s, 1, Len(prefix)) = prefix

\* action_name[6:], the six characters being the token "click_"
RemovePrefix(action_name) == Tail(action_name)

\* lines 208-214: if match: click it, else warn.  input_raises tells whether
\* the input controller raises during the click (caught at line 222).
ClickMatch(match, input_raises) ==
    IF match.found
    THEN IF input_raises
         THEN [ret |-> FALSE, events |-> <<[ev |-> "error"]>>]
         ELSE [ret |-> TRUE,
               events |-> <<[ev |-> "click", at |-> center(match),
                             template_name |-> match.template_name]>>]
    ELSE [ret |-> FALSE, events |-> <<[ev |-> "not_found"]>>]

\* What one call of _execute_action does: the events it adds to the log and
\* the value it returns.  capture is what screen_capture.capture() yields.
_execute_action(tpls, action_name, capture, input_raises) ==
    IF capture.raised
    THEN [ret |-> FALSE, events |-> <<[ev |-> "error"]>>]
    ELSE IF StartsWith(action_name, <<"click_">>)
    THEN ClickMatch(find_template(tpls, capture, RemovePrefix(action_name),
                                  "EXACT", ActionThreshold),
                    input_raises)
    ELSE [ret |-> FALSE, events |-> <<[ev |-> "unknown_action"]>>]

\* The target is compared with the state the manager held before the update.
AlreadyThereStale(detected, target_state) == current_state = target_state

\* line 144: if current_state == target_state
AlreadyThere(detected, target_state) == detected = target_state

\* line 151: if not path (None and the empty list are both false)
NotPath(path) == path.is_none \/ path.list = <<>>

\* The comparison after a hop is skipped.
HopFailedNever(new_state, transition) == FALSE

\* line 171: if new_state != transition.to_state
HopFailed(new_state, transition) == new_state # transition.to_state

\* The for loop over action_sequence aborts at the first action that fails.
AfterActionAbort(ret, ai, n) == IF ret /\ ai < n THEN "actions" ELSE "sleep"

\* lines 162-166: the for loop over action_sequence ignores what
\* _execute_action returns; after the last action comes the sleep.
AfterAction(ret, ai, n) == IF ai < n THEN "actions" ELSE "sleep"

\* Where a hop starts: at its first action, or at the sleep if it has none.
HopEntry(transition) ==
    IF transition.action_sequence = <<>> THEN "sleep" ELSE "actions"

\* faults counts the exceptions of the call; the environment raises at most
\* one per call.  failed tells whether an earlier call on this instance
\* returned False.
NavIdle ==
    [target |-> NoState, path |-> <<>>, hop |-> 0, ai |-> 0, log |-> <<>>,
     result |-> "none", faults |-> 0, failed |-> FALSE]

\* The locals of a new call for target_state, after the call that left n.
NewCall(n, target_state) ==
    [NavIdle EXCEPT !.target = target_state,
                    !.failed = n.failed \/ n.result = "False"]

Returned(n, result) == [n EXCEPT !.result = result]

Logged(n, events) == [n EXCEPT !.log = n.log \o events]

DetectEvent(hop, state) == [ev |-> "detect", hop |-> hop, state |-> state]

\* update_state of NikkeAutomation raised in capture: navigate_to raises.
Raise(n) ==
    /\ UNCHANGED session_vars
    /\ pc' = "idle"
    /\ nav' = Returned(Logged([n EXCEPT !.faults = n.faults + 1],
                              <<[ev |-> "capture_error"]>>), "raised")

\* Without a path the first registered transition is tried as a fallback.
FollowPathFallback(n, path) ==
    IF NotPath(path)
    THEN /\ pc' = HopEntry(transitions[1])
         /\ nav' = [n EXCEPT !.path = <<transitions[1]>>, !.hop = 1, !.ai = 1]
    ELSE /\ pc' = HopEntry(path.list[1])
         /\ nav' = [n EXCEPT !.path = path.list, !.hop = 1, !.ai = 1]

\* lines 151-155: no path, or the first hop of the path.
FollowPath(n, path) ==
    IF NotPath(path)
    THEN /\ pc' = "idle"
         /\ nav' = Returned(n, "False")
    ELSE /\ pc' = HopEntry(path.list[1])
         /\ nav' = [n EXCEPT !.path = path.list, !.hop = 1, !.ai = 1]

\* After a failed attempt the instance refuses to navigate.
NavigateFromSticky(n, target_state, detected) ==
    /\ update_state(detected)
    /\ IF AlreadyThere(detected, target_state)
       THEN /\ pc' = "idle"
            /\ nav' = Returned(Logged(n, <<DetectEvent(0, detected)>>), "True")
       ELSE IF n.failed
       THEN /\ pc' = "idle"
            /\ nav' = Returned(Logged(n, <<DetectEvent(0, detected)>>), "False")
       ELSE FollowPath(Logged(n, <<DetectEvent(0, detected), [ev |-> "find_path"]>>),
                       find_path(transitions, current_state', target_state))

\* The path is computed from the state the manager held before the update.
NavigateFromStalePath(n, target_state, detected) ==
    /\ update_state(detected)
    /\ IF AlreadyThere(detected, target_state)
       THEN /\ pc' = "idle"
            /\ nav' = Returned(Logged(n, <<DetectEvent(0, detected)>>), "True")
       ELSE FollowPath(Logged(n, <<DetectEvent(0, detected), [ev |-> "find_path"]>>),
                       find_path(transitions, current_state, target_state))

\* lines 142-149: update_state, the shortcut and find_path.
NavigateFrom(n, target_state, detected) ==
    /\ update_state(detected)
    /\ IF AlreadyThere(detected, target_state)
       THEN /\ pc' = "idle"
            /\ nav' = Returned(Logged(n, <<DetectEvent(0, detected)>>), "True")
       ELSE FollowPath(Logged(n, <<DetectEvent(0, detected), [ev |-> "find_path"]>>),
                       find_path(transitions, current_state', target_state))

\* navigate_to, lines 141-155: the first detection cycle and the path.
NavigateTo(target_state, capture) ==
    /\ pc = "idle"
    /\ Len(state_history) < MaxHistory
    /\ IF capture.raised
       THEN Raise(NewCall(nav, target_state))
       ELSE NavigateFrom(NewCall(nav, target_state), target_state,
                         detect_state(state_definitions, templates, capture))
    /\ UNCHANGED <<transitions, last_call, templates, gui, state_definitions>>

ActionEvent(hop, index, name) ==
    [ev |-> "action", hop |-> hop, index |-> index, name |-> name]

\* The log and the position after one _execute_action call that returned r.
ActionDone(action_name, r, n) ==
    /\ nav' = [Logged(nav, <<ActionEvent(nav.hop, nav.ai, action_name)>>
                           \o r.events)
               EXCEPT !.ai = nav.ai + 1,
                      !.faults = IF r.events[1].ev = "error"
                                 THEN nav.faults + 1 ELSE nav.faults]
    /\ pc' = AfterAction(r.ret, nav.ai, n)

\* lines 162-163: one action of the current transition.
ExecuteAction(capture, input_raises) ==
    /\ pc = "actions"
    /\ (capture.raised \/ input_raises) => nav.faults = 0
    /\ ActionDone(nav.path[nav.hop].action_sequence[nav.ai],
                  _execute_action(templates,
                                  nav.path[nav.hop].action_sequence[nav.ai],
                                  capture, input_raises),
                  Len(nav.path[nav.hop].action_sequence))
    /\ UNCHANGED <<manager_vars, templates, gui, state_definitions>>

\* time.sleep is missing: the hop is verified right after its actions.
SleepSkipped ==
    /\ pc = "sleep"
    /\ nav' = nav
    /\ pc' = "verify"
    /\ UNCHANGED <<manager_vars, templates, gui, state_definitions>>

\* line 166: time.sleep(transition.expected_duration)
Sleep ==
    /\ pc = "sleep"
    /\ nav' = Logged(nav, <<[ev |-> "sleep", hop |-> nav.hop,
                             duration |-> nav.path[nav.hop].expected_duration]>>)
    /\ pc' = "verify"
    /\ UNCHANGED <<manager_vars, templates, gui, state_definitions>>

\* The failed hop is tried again instead of giving up.
RetryHop(n) ==
    /\ pc' = HopEntry(n.path[n.hop])
    /\ nav' = [n EXCEPT !.ai = 1]

\* lines 172-175: the mismatch is logged and navigate_to returns False.
AbortNavigation(n) ==
    /\ pc' = "idle"
    /\ nav' = Returned(n, "False")

\* lines 169-178: update_state, the comparison, and the next hop or the return.
VerifyHop(n, new_state) ==
    /\ update_state(new_state)
    /\ IF HopFailed(new_state, n.path[n.hop])
       THEN AbortNavigation(Logged(n, <<DetectEvent(n.hop, new_state)>>))
       ELSE IF n.hop < Len(n.path)
       THEN /\ pc' = HopEntry(n.path[n.hop + 1])
            /\ nav' = [Logged(n, <<DetectEvent(n.hop, new_state)>>)
                       EXCEPT !.hop = n.hop + 1, !.ai = 1]
       ELSE /\ pc' = "idle"
            /\ nav' = Returned(Logged(n, <<DetectEvent(n.hop, new_state)>>), "True")

\* lines 169-178: the detection cycle after the hop.
Verify(capture) ==
    /\ pc = "verify"
    /\ capture.raised => nav.faults = 0
    /\ IF capture.raised
       THEN Raise(nav)
       ELSE VerifyHop(nav, detect_state(state_definitions, templates, capture))
    /\ UNCHANGED <<transitions, last_call, templates, gui, state_definitions>>

(***************************************************************************)
(* NikkeAutomationGUI: the handlers of the three job buttons run on Tk's   *)
(* main loop, one at a time; each job runs in a thread of its own and      *)
(* hands _restore_stdout and _enable_buttons back to the main loop with    *)
(* root.after.  gui.state is the state option of every ttk.Button,         *)
(* gui.buttons the list self.buttons, gui.after the callbacks waiting in   *)
(* the main loop, gui.threads the threads that have not ended.             *)
(***************************************************************************)
automation_vars ==
    <<current_state, previous_state, state_history, transitions,
      stable_state_time, clock, last_call, templates, state_definitions,
      pc, nav>>

\* The ttk.Button widgets of the window, by tab.
ButtonNames ==
    {"capture.browse_button", "capture.capture_button", "test.browse_button",
     "test.test_button", "run.browse_button", "run.run_button",
     "output.clear_button"}

\* Every ttk.Button below the root widget.
_collect_buttons == ButtonNames

GuiInit ==
    gui = [state |-> [b \in ButtonNames |-> "normal"],
           buttons |-> _collect_buttons,
           stdout |-> "original",
           after |-> <<>>,
           threads |-> <<>>]

\* A thread at the start of thread_func.
Thread(func) ==
    [func |-> func, at |-> "start", raised |-> FALSE, navigate_to |-> ""]

\* The buttons stay enabled while the job runs.
_run_in_thread_enabled(g, func) ==
    [g EXCEPT !.stdout = "redirect",
              !.threads = Append(@, Thread(func))]

\* lines 296-318: disable self.buttons, redirect stdout, start the thread.
_run_in_thread(g, func) ==
    [g EXCEPT !.state = [b \in ButtonNames |->
                            IF b \in g.buttons THEN "disabled" ELSE @[b]],
              !.stdout = "redirect",
              !.threads = Append(@, Thread(func))]

_restore_stdout(g) == [g EXCEPT !.stdout = "original"]

_enable_buttons(g) ==
    [g EXCEPT !.state = [b \in ButtonNames |->
                            IF b \in g.buttons THEN "normal" ELSE @[b]],
              !.buttons = _collect_buttons]

\* A click reaches the command of a button only while the button is enabled.
Clickable(b) == gui.state[b] = "normal"

\* lines 329-337; an empty name ends in the message box.
CaptureTemplate(name) ==
    /\ Clickable("capture.capture_button")
    /\ name # ""
    /\ gui' = _run_in_thread(gui, "_do_capture_template")
    /\ UNCHANGED automation_vars

RunTest ==
    /\ Clickable("test.test_button")
    /\ gui' = _run_in_thread(gui, "_do_run_test")
    /\ UNCHANGED automation_vars

RunAutomation ==
    /\ Clickable("run.run_button")
    /\ gui' = _run_in_thread(gui, "_do_run_automation")
    /\ UNCHANGED automation_vars

\* The main loop runs the callbacks of root.after(0, ...) in their order.
RestoreStdout ==
    /\ gui.after # <<>> /\ Head(gui.after) = "_restore_stdout"
    /\ gui' = [_restore_stdout(gui) EXCEPT !.after = Tail(gui.after)]
    /\ UNCHANGED automation_vars

EnableButtons ==
    /\ gui.after # <<>> /\ Head(gui.after) = "_enable_buttons"
    /\ gui' = [_enable_buttons(gui) EXCEPT !.after = Tail(gui.after)]
    /\ UNCHANGED automation_vars

ThreadAt(i, at) == i \in 1 .. Len(gui.threads) /\ gui.threads[i].at = at

\* func(*args, **kwargs) of thread i is over: it returned, or it raised and
\* the except clause printed the error.
FuncOver(i, raised) ==
    gui' = [gui EXCEPT !.threads[i].at = "finally",
                       !.threads[i].raised = raised]

\* lines 339-384: the capture tool, which may raise.
DoCaptureTemplate(i, raises) ==
    /\ ThreadAt(i, "start")
    /\ gui.threads[i].func = "_do_capture_template"
    /\ FuncOver(i, raises)
    /\ UNCHANGED automation_vars

\* NikkeAutomation(config_path): a StateManager, a TemplateMatcher and a
\* StateDetector of its own; time is counted from its construction.
NewInstance ==
    /\ current_state' = "UNKNOWN"
    /\ previous_state' = NoState
    /\ state_history' = <<>>
    /\ transitions' = DefaultTransitions
    /\ stable_state_time' = 0
    /\ clock' = 0
    /\ last_call' = NoCall
    /\ templates' = AssetTemplates
    /\ state_definitions' = DefaultStateDefinitions
    /\ pc' = "idle"
    /\ nav' = NavIdle

\* lines 394-397 and 414-419: the values of the entry fields are read and the
\* automation is constructed, which may raise.
NewAutomation(i, navigate_to, raises) ==
    /\ ThreadAt(i, "start")
    /\ gui.threads[i].func \in {"_do_run_test", "_do_run_automation"}
    /\ IF raises
       THEN FuncOver(i, TRUE) /\ UNCHANGED automation_vars
       ELSE /\ gui' = [gui EXCEPT !.threads[i].at = "run",
                                  !.threads[i].navigate_to = navigate_to]
            /\ NewInstance

\* A thread runs the calls of func on its automation.
Running(func) ==
    \E i \in 1 .. Len(gui.threads) :
        gui.threads[i].at = "run" /\ gui.threads[i].func = func

\* automation.run_test() and automation.update_state(): the detection cycle.
WorkerUpdateState(capture) ==
    /\ Running("_do_run_test") \/ Running("_do_run_automation")
    /\ last_call = NoCall
    /\ DetectionCycle(capture)

CycleDone == last_call.op = "detection_cycle" /\ ~ last_call.raised

\* lines 426-431: target_state = GameState[navigate_to]; navigate_to(target_state)
WorkerNavigateTo(i, capture) ==
    /\ ThreadAt(i, "run") /\ gui.threads[i].func = "_do_run_automation"
    /\ CycleDone /\ nav.result = "none"
    /\ gui.threads[i].navigate_to \in GameState
    /\ NavigateTo(gui.threads[i].navigate_to, capture)

\* What is left of func after the detection cycle: nothing for the test; for
\* the automation nothing without a target, the KeyError of a name that is
\* no GameState, or the navigate_to call.
FuncReturns(t) ==
    /\ CycleDone
    /\ \/ t.func = "_do_run_test"
       \/ t.navigate_to \notin GameState
       \/ nav.result \in {"True", "False"}

FuncRaises == last_call = [op |-> "detection_cycle", raised |-> TRUE]
                 \/ nav.result = "raised"

FuncEnds(i) ==
    /\ ThreadAt(i, "run") /\ pc = "idle"
    /\ FuncReturns(gui.threads[i]) \/ FuncRaises
    /\ FuncOver(i, FuncRaises)
    /\ UNCHANGED automation_vars

\* finally: self.root.after(0, self._restore_stdout)
ScheduleRestore(i) ==
    /\ ThreadAt(i, "finally")
    /\ gui' = [gui EXCEPT !.threads[i].at = "enable",
                          !.after = Append(@, "_restore_stdout")]
    /\ UNCHANGED automation_vars

RemoveAt(seq, i) == SubSeq(seq, 1, i - 1) \o SubSeq(seq, i + 1, Len(seq))

\* finally: self.root.after(0, self._enable_buttons); the thread ends.
ScheduleEnable(i) ==
    /\ ThreadAt(i, "enable")
    /\ gui' = [gui EXCEPT !.threads = RemoveAt(@, i),
                          !.after = Append(@, "_enable_buttons")]
    /\ UNCHANGED automation_vars

(***************************************************************************)
(* The specifications.                                                     *)
(***************************************************************************)
Init ==
    /\ ManagerInit
    /\ templates = AssetTemplates
    /\ state_definitions = DefaultStateDefinitions
    /\ pc = "idle"
    /\ nav = NavIdle
    /\ GuiInit

\* Transitions are registered at set-up, before the first navigate_to call.
SetUp(t) == nav.result = "none" /\ RegisterTransition(t)

\* The automation.
Next ==
    \/ \E t \in NavRegInputs : SetUp(t)
    \/ \E target_state \in NavTargets, capture \in CaptureOutcomes :
          NavigateTo(target_state, capture)
    \/ \E capture \in CaptureOutcomes, input_raises \in BOOLEAN :
          ExecuteAction(capture, input_raises)
    \/ Sleep
    \/ \E capture \in CaptureOutcomes : Verify(capture)

Spec == Init /\ [][Next]_vars

\* The StateManager on its own.
NextGraph ==
    \/ \E t \in RegInputs : RegisterTransition(t)
    \/ \E new_state \in StateInputs : UpdateState(new_state)
    \/ \E target_state \in QueryTargets : FindPath(target_state)
    \/ \E target_state \in QueryTargets : CanTransitionTo(target_state)
    \/ GetReachableStates

SpecGraph == Init /\ [][NextGraph]_vars

\* The StateDetector on its own.
NextDetect ==
    \/ \E r \in RuleInputs : RegisterStateDefinition(r)
    \/ \E screen_image \in DetectImages : DetectState(screen_image)

SpecDetect == Init /\ [][NextDetect]_vars

\* The inputs of the calls made between detection cycles.
SessionTargets == {"SHOP", "MAIL"}

SessionFrames == {ImgHome, ImgShop}

SessionNames == {Tid("home/shop_icon"), Tid("missing/icon")}

\* The detection cycle among the calls of the graph, the detector and the
\* matcher.
NextSession ==
    \/ \E capture \in CaptureOutcomes : DetectionCycle(capture)
    \/ \E t \in NavRegInputs : RegisterTransition(t)
    \/ \E target_state \in SessionTargets : FindPath(target_state)
    \/ \E target_state \in SessionTargets : CanTransitionTo(target_state)
    \/ GetReachableStates
    \/ \E screen_image \in SessionFrames : DetectState(screen_image)
    \/ \E expected_state \in SessionTargets, screen_image \in SessionFrames :
          VerifyState(expected_state, screen_image)
    \/ \E image \in SessionFrames, template_name \in SessionNames :
          FindTemplate(image, template_name, "EXACT", 80)
    \/ \E image \in SessionFrames, template_name \in SessionNames :
          FindTemplateMultiple(image, template_name, "SQDIFF", 80, 3)

SpecSession == Init /\ [][NextSession]_vars

\* What the entry fields of the window hold, and what the screen shows.
GuiNames == {"", "shop_icon"}

GuiTargets == {"", "SHOP", "BOGUS"}

GuiCaptures == {ImgHome, ImgShop, CaptureError}

\* The window: clicks and callbacks on the main loop, and the job threads.
NextGui ==
    \/ \E name \in GuiNames : CaptureTemplate(name)
    \/ RunTest
    \/ RunAutomation
    \/ RestoreStdout
    \/ EnableButtons
    \/ \E i \in 1 .. Len(gui.threads), raises \in BOOLEAN :
          DoCaptureTemplate(i, raises)
    \/ \E i \in 1 .. Len(gui.threads), navigate_to \in GuiTargets,
          raises \in BOOLEAN : NewAutomation(i, navigate_to, raises)
    \/ \E capture \in GuiCaptures : WorkerUpdateState(capture)
    \/ \E i \in 1 .. Len(gui.threads), capture \in GuiCaptures :
          WorkerNavigateTo(i, capture)
    \/ \E capture \in GuiCaptures, input_raises \in BOOLEAN :
          ExecuteAction(capture, input_raises)
    \/ Sleep
    \/ \E capture \in GuiCaptures : Verify(capture)
    \/ \E i \in 1 .. Len(gui.threads) : FuncEnds(i)
    \/ \E i \in 1 .. Len(gui.threads) : ScheduleRestore(i)
    \/ \E i \in 1 .. Len(gui.threads) : ScheduleEnable(i)

SpecGui == Init /\ [][NextGui]_vars

\* The TemplateMatcher on its own.
NextMatch ==
    \/ \E image \in MatchFrames, template_name \in MatchNames,
          method \in MatchMethod, threshold \in Thresholds :
          FindTemplate(image, template_name, method, threshold)
    \/ \E image \in MatchFrames, template_name \in MatchNames,
          method \in MatchMethod, threshold \in Thresholds,
          max_results \in MaxResults :
          FindTemplateMultiple(image, template_name, method, threshold,
                               max_results)

SpecMatch == Init /\ [][NextMatch]_vars

(***************************************************************************)
(* Reachability in the graph, defined without any search order.            *)
(***************************************************************************)
Edges(T) == { <<T[i].from_state, T[i].to_state>> : i \in 1 .. Len(T) }

Successors(E, S) == { e[2] : e \in { d \in E : d[1] \in S } }

RECURSIVE Hops(_, _, _, _)
\* The least number of edges from a state of `seen` (the states within k
\* edges of the start) to target, or -1 if there is none.
Hops(E, seen, target, k) ==
    IF target \in seen THEN k
    ELSE IF Successors(E, seen) \subseteq seen THEN -1
    ELSE Hops(E, seen \cup Successors(E, seen), target, k + 1)

MinHops(T, from, target) == Hops(Edges(T), {from}, target, 0)

Registered(T, tr) == \E i \in 1 .. Len(T) : T[i] = tr

IsChain(T, p, from, target) ==
    /\ \A i \in 1 .. Len(p) : Registered(T, p[i])
    /\ Len(p) > 0 => p[1].from_state = from /\ p[Len(p)].to_state = target
    /\ Len(p) = 0 => from = target
    /\ \A i \in 1 .. (Len(p) - 1) : p[i].to_state = p[i + 1].from_state

FoundPath == last_call.op = "find_path" /\ ~ last_call.ret.is_none

(***************************************************************************)
(* C1: whenever find_path(target) returns a list, the list is a connected   *)
(* chain of registered transitions from the current state to the target    *)
(* and its length is the minimum number of hops of any directed path from  *)
(* the current state to the target.                                        *)
(***************************************************************************)
C1_PathIsMinimalChain ==
    FoundPath =>
        /\ IsChain(transitions, last_call.ret.list, current_state, last_call.arg)
        /\ Len(last_call.ret.list) =
               MinHops(transitions, current_state, last_call.arg)

\* ERROR -> HOME_SCREEN -> SHOP is returned although the longer chain
\* ERROR -> BATTLE -> POPUP -> SHOP is registered as well.
C1_Witness ==
    /\ FoundPath
    /\ current_state = "ERROR" /\ last_call.arg = "SHOP"
    /\ Len(last_call.ret.list) = 2
    /\ {<<"ERROR", "BATTLE">>, <<"BATTLE", "POPUP">>, <<"POPUP", "SHOP">>}
           \subseteq Edges(transitions)

(***************************************************************************)
(* C2: find_path(target) returns None exactly when no directed path of     *)
(* registered transitions leads from the current state to the target, and  *)
(* can_transition_to(target) is true exactly when such a path exists (so   *)
(* for every multi-hop reachable target and for the current state itself). *)
(***************************************************************************)
C2_NoneIffUnreachable ==
    /\ last_call.op = "find_path" =>
           (last_call.ret.is_none <=>
                MinHops(transitions, current_state, last_call.arg) = -1)
    /\ last_call.op = "can_transition_to" =>
           (last_call.ret <=>
                MinHops(transitions, current_state, last_call.arg) >= 0)

\* can_transition_to is true for a target three hops away.
C2_Witness ==
    /\ last_call.op = "can_transition_to" /\ last_call.ret
    /\ MinHops(transitions, current_state, last_call.arg) = 3

(***************************************************************************)
(* C3: find_path(target) with target equal to the current state returns    *)
(* the empty list, never None, also when the current state has no outgoing *)
(* or incoming edge.                                                       *)
(***************************************************************************)
C3_EmptyPathAtTarget ==
    (last_call.op = "find_path" /\ last_call.arg = current_state) =>
        (~ last_call.ret.is_none /\ last_call.ret.list = <<>>)

\* The current state is isolated: no registered edge touches it.
C3_Witness ==
    /\ last_call.op = "find_path" /\ last_call.arg = current_state
    /\ \A e \in Edges(transitions) : e[1] # current_state /\ e[2] # current_state

(***************************************************************************)
(* What the log of a navigate_to call says.                                *)
(***************************************************************************)
Log == nav.log

Returns(result) == pc = "idle" /\ nav.result = result

DetectIndices == { k \in 1 .. Len(Log) : Log[k].ev = "detect" }

\* The most recent detection of the call.
LastDetect ==
    Log[CHOOSE k \in DetectIndices : \A j \in DetectIndices : j <= k]

\* The detection after hop h found the hop's to_state.
HopVerified(h) ==
    \E k \in DetectIndices :
        /\ Log[k].hop = h /\ Log[k].state = nav.path[h].to_state
        /\ \E j \in 1 .. (k - 1) : Log[j].ev = "sleep" /\ Log[j].hop = h

\* The detection at Log[k] came after a hop and is not the hop's to_state.
Mismatch(k) ==
    /\ Log[k].ev = "detect" /\ Log[k].hop >= 1
    /\ Log[k].state # nav.path[Log[k].hop].to_state

(***************************************************************************)
(* C4: navigate_to(target) returns True only if the state detected at the  *)
(* start equals the target or every hop of the computed path was followed  *)
(* by a detection equal to that hop's to_state; and whenever it returns    *)
(* True the current state of the session equals the target.                *)
(***************************************************************************)
C4_TrueMeansArrived ==
    Returns("True") =>
        /\ current_state = nav.target
        /\ \/ Log[1] = DetectEvent(0, nav.target)
           \/ /\ nav.path # <<>>
              /\ \A h \in 1 .. Len(nav.path) : HopVerified(h)

\* A navigation of two hops that arrived.
C4_Witness ==
    /\ Returns("True")
    /\ Len(nav.path) = 2
    /\ HopVerified(1) /\ HopVerified(2)

(***************************************************************************)
(* C5: as soon as the state detected after a hop differs from the hop's    *)
(* to_state, navigate_to returns False: no action of a later transition is *)
(* executed, no further detection runs and no new path is computed (the    *)
(* mismatching detection is the last event of the call).                   *)
(***************************************************************************)
C5_MismatchEndsTheCall ==
    \A k \in 1 .. Len(Log) :
        Mismatch(k) => (k = Len(Log) /\ Returns("False"))

\* The first hop of a path of two hops failed: the second was never started.
C5_Witness ==
    /\ Returns("False")
    /\ Len(nav.path) = 2
    /\ Mismatch(Len(Log)) /\ Log[Len(Log)].hop = 1
    /\ \A k \in 1 .. Len(Log) : Log[k].ev = "action" => Log[k].hop = 1

(***************************************************************************)
(* C6: when navigate_to returns True or False, the current state of the    *)
(* session is the state returned by the most recent detection of the call; *)
(* in particular when the hop HOME_SCREEN -> SHOP is followed by a         *)
(* detection of HOME_SCREEN, navigate_to returns False and the current     *)
(* state is HOME_SCREEN.                                                   *)
(***************************************************************************)
HomeAgain ==
    /\ pc = "idle" /\ DetectIndices # {}
    /\ LastDetect = DetectEvent(1, "HOME_SCREEN")
    /\ nav.path[1].from_state = "HOME_SCREEN" /\ nav.path[1].to_state = "SHOP"

C6_CurrentIsLastDetected ==
    /\ (Returns("True") \/ Returns("False")) => current_state = LastDetect.state
    /\ HomeAgain => (Returns("False") /\ current_state = "HOME_SCREEN")

C6_Witness == HomeAgain /\ Returns("False") /\ current_state = "HOME_SCREEN"

(***************************************************************************)
(* The action descriptors of the transition graph: "click_template:X" is a *)
(* click on template X and "wait:N" a wait of N seconds.                   *)
(***************************************************************************)
IsClickTemplate(action_name) ==
    Len(action_name) = 3 /\ action_name[1] = "click_" /\ action_name[2] = "template:"

IsWait(action_name) == Len(action_name) = 2 /\ action_name[1] = "wait:"

\* N of "wait:N", in tenths of a second.
WaitDuration(action_name) ==
    CASE action_name[2] = "2.0" -> 20
      [] action_name[2] = "1.0" -> 10
      [] action_name[2] = "0.5" -> 5

\* The action that ExecuteAction runs next.
PendingAction == nav.path[nav.hop].action_sequence[nav.ai]

LastEvent(n) == n.log[Len(n.log)]

(***************************************************************************)
(* C7: when the action of a transition is a click on template X (as in the *)
(* default HOME_SCREEN -> SHOP transition) and X is loaded and found in    *)
(* the freshly captured frame at the default threshold, executing the      *)
(* action in navigate_to clicks at the center of X's match.                *)
(***************************************************************************)
C7_ClickTemplateClicks ==
    [][ \A capture \in Images :
          ( /\ pc = "actions"
            /\ IsClickTemplate(PendingAction)
            /\ find_template(templates, capture, Tid(PendingAction[3]),
                             "EXACT", ActionThreshold).found
            /\ ExecuteAction(capture, FALSE) )
          => ( /\ LastEvent(nav').ev = "click"
               /\ LastEvent(nav').at =
                      center(find_template(templates, capture,
                                 Tid(PendingAction[3]), "EXACT",
                                 ActionThreshold)) ) ]_vars

(***************************************************************************)
(* C8: when the action of a transition is a wait of N seconds (as in the   *)
(* default ERROR -> HOME_SCREEN and UNKNOWN -> HOME_SCREEN transitions),   *)
(* executing it in navigate_to sleeps N seconds before the next action of  *)
(* the list starts (unless the capture that opens _execute_action raised,  *)
(* which is logged as an error).                                           *)
(***************************************************************************)
C8_WaitSleeps ==
    \A k \in 1 .. Len(Log) :
        (Log[k].ev = "action" /\ IsWait(Log[k].name)) =>
            /\ k < Len(Log)
            /\ Log[k + 1].ev \in {"sleep", "error"}
            /\ Log[k + 1].ev = "sleep" =>
                   Log[k + 1].duration = WaitDuration(Log[k].name)

(***************************************************************************)
(* C9: in navigate_to a click action whose template cannot be located      *)
(* (unknown identifier, too large, below threshold), or whose execution    *)
(* raises inside _execute_action, is skipped: the next action of the same  *)
(* transition follows it, after the last action comes the sleep of the     *)
(* hop, and after the sleep the verification.                              *)
(***************************************************************************)
Skipped(k) == Log[k].ev \in {"not_found", "error"}

\* What follows the action of Log[k - 1], whose outcome is Log[k].
ActionFollowed(k) ==
    LET h == Log[k - 1].hop
        i == Log[k - 1].index
        actions == nav.path[h].action_sequence
    IN  IF i < Len(actions)
        THEN IF k = Len(Log)
             THEN pc = "actions" /\ nav.hop = h /\ nav.ai = i + 1
             ELSE Log[k + 1] = ActionEvent(h, i + 1, actions[i + 1])
        ELSE IF k = Len(Log)
             THEN pc = "sleep" /\ nav.hop = h
             ELSE /\ Log[k + 1].ev = "sleep" /\ Log[k + 1].hop = h
                  /\ Log[k + 1].duration = nav.path[h].expected_duration
                  /\ IF k + 1 = Len(Log)
                     THEN pc = "verify" /\ nav.hop = h
                     ELSE \/ Log[k + 2] = [ev |-> "capture_error"]
                          \/ Log[k + 2].ev = "detect" /\ Log[k + 2].hop = h

C9_SkippedActionGoesOn ==
    \A k \in 2 .. Len(Log) :
        (Log[k - 1].ev = "action" /\ Skipped(k)) => ActionFollowed(k)

\* In one hop: the first action raised, the second found its template too
\* large for the frame, the fourth clicked, and the hop was verified.
C9_Witness ==
    /\ Len(Log) >= 12
    /\ Log[3] = ActionEvent(1, 1, ClickOf("home/shop_icon"))
    /\ Log[4].ev = "error"
    /\ Log[5] = ActionEvent(1, 2, ClickOf("common/empty_area"))
    /\ Log[6].ev = "not_found"
    /\ Log[10].ev = "click"
    /\ Log[11].ev = "sleep" /\ Log[12].ev = "detect"

(***************************************************************************)
(* C10: navigate_to(target) returns True at once when the state detected   *)
(* at the start of the call equals the target: no path is computed, no     *)
(* action is executed, no sleep happens and exactly one detection runs.    *)
(***************************************************************************)
AtTargetAtStart ==
    Len(Log) >= 1 /\ Log[1].ev = "detect" /\ Log[1].state = nav.target

C10_AlreadyAtTarget ==
    AtTargetAtStart =>
        /\ Returns("True")
        /\ Log = <<DetectEvent(0, nav.target)>>
        /\ nav.path = <<>>

\* The manager held another state before the call.
C10_Witness ==
    /\ AtTargetAtStart /\ Returns("True")
    /\ previous_state # NoState /\ previous_state # nav.target
    /\ state_history[Len(state_history)][1] = nav.target

(***************************************************************************)
(* C11: when find_path(target) yields no path from the state detected at   *)
(* the start, navigate_to returns False without executing any action or    *)
(* sleep, and leaves the current state, previous state, history and        *)
(* registered transitions exactly as they were right after the initial     *)
(* detection cycle.                                                        *)
(***************************************************************************)
\* The session right after a detection cycle that detected `detected`.
AfterDetection(detected) ==
    IF detected = current_state
    THEN /\ current_state' = current_state
         /\ previous_state' = previous_state
         /\ state_history' = state_history
    ELSE /\ current_state' = detected
         /\ previous_state' = current_state
         /\ Len(state_history') = Len(state_history) + 1
         /\ SubSeq(state_history', 1, Len(state_history)) = state_history
         /\ state_history'[Len(state_history')][1] = detected

\* The target cannot be reached from the state detected at the start.
NoPathFrom(detected, target_state) ==
    MinHops(transitions, detected, target_state) = -1

\* A step taken while no call is running and that leaves a log is one whole
\* navigate_to call or its beginning; the log starts with what was detected.
CallStarts == pc = "idle" /\ nav'.log # <<>> /\ nav'.log[1].ev = "detect"

C11_NoPathNoEffects ==
    [][ ( /\ CallStarts
          /\ NoPathFrom(nav'.log[1].state, nav'.target) )
        => ( /\ pc' = "idle" /\ nav'.result = "False"
             /\ nav'.log = <<DetectEvent(0, nav'.log[1].state),
                             [ev |-> "find_path"]>>
             /\ transitions' = transitions
             /\ AfterDetection(nav'.log[1].state) ) ]_vars

\* SHOP was detected, which changed the session, and MAIL has no edge.
C11_Witness ==
    /\ Returns("False") /\ nav.target = "MAIL"
    /\ Log = <<DetectEvent(0, "SHOP"), [ev |-> "find_path"]>>
    /\ current_state = "SHOP" /\ previous_state = "HOME_SCREEN"
    /\ state_history[Len(state_history)][1] = "SHOP"
    /\ MinHops(transitions, "SHOP", "MAIL") = -1

(***************************************************************************)
(* C12: for every hop of navigate_to the events occur in this order: all   *)
(* actions of the transition in list order, then one sleep of the          *)
(* transition's expected_duration, then a fresh capture and detection,     *)
(* then update_state, then the comparison with to_state; transitions are   *)
(* executed in path order and no hop starts before the previous hop was    *)
(* verified.                                                               *)
(***************************************************************************)
\* The steps of one hop, in the order the claim gives them.
HopPlan(path, h) ==
    [i \in 1 .. Len(path[h].action_sequence) |->
        ActionEvent(h, i, path[h].action_sequence[i])]
    \o <<[ev |-> "sleep", hop |-> h, duration |-> path[h].expected_duration],
         [ev |-> "detect", hop |-> h]>>

RECURSIVE PathPlan(_, _)
\* The steps of the hops h, h + 1, ... of the path.
PathPlan(path, h) ==
    IF h > Len(path) THEN <<>> ELSE HopPlan(path, h) \o PathPlan(path, h + 1)

IsStep(e) == e.ev \in {"action", "sleep", "detect", "capture_error"}

\* The steps of the log, without the outcomes of the actions; of a detection
\* cycle only the hop it closes is kept.
StepsOf(log) ==
    LET steps == SelectSeq(log, IsStep)
    IN  [k \in 1 .. Len(steps) |->
            IF steps[k].ev = "detect"
            THEN [ev |-> "detect", hop |-> steps[k].hop]
            ELSE IF steps[k].ev = "capture_error"
            THEN [ev |-> "detect", hop |-> nav.hop]
            ELSE steps[k]]

IsPrefix(s, t) == Len(s) <= Len(t) /\ s = SubSeq(t, 1, Len(s))

\* Whatever belongs to hop h >= 2 comes after a detection of hop h - 1 that
\* found the to_state of that hop.
StartedAfterVerified(k) ==
    (Log[k].ev \in {"action", "sleep"} /\ Log[k].hop >= 2) =>
        \E j \in 1 .. (k - 1) :
            Log[j] = DetectEvent(Log[k].hop - 1, nav.path[Log[k].hop - 1].to_state)

C12_HopOrder ==
    /\ nav.path # <<>> =>
           IsPrefix(StepsOf(Log),
                    <<[ev |-> "detect", hop |-> 0]>> \o PathPlan(nav.path, 1))
    /\ \A k \in 1 .. Len(Log) : StartedAfterVerified(k)
    /\ (Log # <<>> /\ LastEvent(nav).ev = "detect") =>
           current_state = LastEvent(nav).state

\* A call of two hops, each with actions, that ran to its end.
C12_Witness ==
    /\ Returns("True") /\ Len(nav.path) = 2
    /\ nav.path[1].action_sequence # <<>> /\ nav.path[2].action_sequence # <<>>
    /\ StepsOf(Log) = <<[ev |-> "detect", hop |-> 0]>> \o PathPlan(nav.path, 1)

(***************************************************************************)
(* C13: after any sequence of register_transition calls, the graph holds   *)
(* exactly one transition per ordered (from_state, to_state) pair, and     *)
(* that transition carries the action list and expected duration of the    *)
(* most recent registration for that pair; registrations for other pairs   *)
(* are unchanged.                                                          *)
(***************************************************************************)
\* The transitions that T holds for the pair.
EdgesOf(T, from_state, to_state) ==
    { T[i] : i \in { k \in 1 .. Len(T) : /\ T[k].from_state = from_state
                                          /\ T[k].to_state = to_state } }

OnePerPair(T) ==
    \A i, j \in 1 .. Len(T) :
        (T[i].from_state = T[j].from_state /\ T[i].to_state = T[j].to_state)
            => i = j

\* The transitions that T holds for the pairs other than the pair of t.
OtherPairs(T, t) ==
    { T[i] : i \in { k \in 1 .. Len(T) : \/ T[k].from_state # t.from_state
                                          \/ T[k].to_state # t.to_state } }

\* A step that leaves a register_transition call in last_call is that call.
C13_LastRegistrationWins ==
    /\ [] OnePerPair(transitions)
    /\ [][ last_call'.op = "register_transition" =>
             /\ EdgesOf(transitions', last_call'.arg.from_state,
                        last_call'.arg.to_state) = {last_call'.arg}
             /\ OtherPairs(transitions', last_call'.arg) =
                    OtherPairs(transitions, last_call'.arg)
         ]_vars

\* The default HOME_SCREEN -> SHOP transition was replaced, next to new pairs.
C13_Witness ==
    /\ last_call.op = "register_transition" /\ last_call.arg = ShopByClicks
    /\ EdgesOf(transitions, "HOME_SCREEN", "SHOP") = {ShopByClicks}
    /\ Len(transitions) > Len(DefaultTransitions)
    /\ EdgesOf(transitions, "SHOP", "HOME_SCREEN") =
           EdgesOf(DefaultTransitions, "SHOP", "HOME_SCREEN")

(***************************************************************************)
(* C14: StateManager.update_state(new_state) with new_state different from *)
(* the current state sets previous_state to the old current state, sets    *)
(* current_state to new_state, appends exactly one entry (new_state, now)  *)
(* to the end of the history, resets the dwell-start timestamp to now, and *)
(* returns True.                                                           *)
(***************************************************************************)
\* A step that leaves an update_state call in last_call is that call; now is
\* the reading of the clock that the call made.
C14_UpdateStateChanged ==
    [][ (last_call'.op = "update_state" /\ last_call'.arg # current_state) =>
          /\ previous_state' = current_state
          /\ current_state' = last_call'.arg
          /\ clock' > clock
          /\ state_history' = Append(state_history, <<last_call'.arg, clock'>>)
          /\ stable_state_time' = clock'
          /\ last_call'.ret = TRUE ]_vars

\* The second change of state of a session.
C14_Witness ==
    /\ last_call.op = "update_state" /\ last_call.ret
    /\ current_state = last_call.arg
    /\ previous_state \notin {NoState, "UNKNOWN"}
    /\ Len(state_history) = 2
    /\ state_history[2] = <<current_state, stable_state_time>>

(***************************************************************************)
(* C15: StateManager.update_state(new_state) with new_state equal to the   *)
(* current state returns False and leaves current_state, previous_state,   *)
(* the history and the dwell-start timestamp unchanged (this includes the  *)
(* first detection of UNKNOWN on a fresh manager, whose history stays      *)
(* empty).                                                                 *)
(***************************************************************************)
C15_UpdateStateUnchanged ==
    [][ (last_call'.op = "update_state" /\ last_call'.arg = current_state) =>
          /\ last_call'.ret = FALSE
          /\ UNCHANGED <<current_state, previous_state, state_history,
                         stable_state_time>> ]_vars

\* UNKNOWN reported to a fresh manager.
C15_Witness ==
    /\ last_call.op = "update_state" /\ last_call.arg = "UNKNOWN"
    /\ ~ last_call.ret
    /\ current_state = "UNKNOWN" /\ previous_state = NoState
    /\ state_history = <<>> /\ stable_state_time = 0

BestScore(image, name) ==
    LET scores == { sp.score : sp \in { q \in image.sprites : q.name = name } }
    IN  IF scores = {} THEN 0 ELSE CHOOSE v \in scores : \A w \in scores : w <= v

\* The template is loaded, fits the frame and reaches the threshold somewhere.
FoundInFrame(image, name, threshold) ==
    /\ name \in DOMAIN templates
    /\ templates[name].h <= image.shape.h /\ templates[name].w <= image.shape.w
    /\ BestScore(image, name) >= threshold

\* The places in the rule's list of the templates that are found.
FoundOf(r, image) ==
    { k \in 1 .. Len(r.required_templates) :
        FoundInFrame(image, r.required_templates[k], r.confidence_threshold) }

RECURSIVE SumOfFound(_, _, _)
\* The sum of the confidences of the found templates k, k + 1, ...
SumOfFound(r, image, k) ==
    IF k > Len(r.required_templates) THEN 0
    ELSE (IF k \in FoundOf(r, image)
          THEN BestScore(image, r.required_templates[k]) ELSE 0)
         + SumOfFound(r, image, k + 1)

IsCandidate(r, image) ==
    /\ FoundOf(r, image) # {}
    /\ r.match_all => FoundOf(r, image) = 1 .. Len(r.required_templates)

\* The rules, by their place in the order of registration, that yield a
\* candidate.
CandidateRules(image) ==
    { i \in 1 .. Len(state_definitions) : IsCandidate(state_definitions[i], image) }

\* The average confidence of rule i is below that of rule j.
LowerAverage(i, j, image) ==
    SumOfFound(state_definitions[i], image, 1)
        * Cardinality(FoundOf(state_definitions[j], image))
    < SumOfFound(state_definitions[j], image, 1)
        * Cardinality(FoundOf(state_definitions[i], image))

StatesOf(defs) == [i \in 1 .. Len(defs) |-> defs[i].state]

Detected == last_call.op = "detect_state"

\* The states that detect_state entered in state_confidence.
ConfidenceStates ==
    { last_call.state_confidence[k].state :
        k \in 1 .. Len(last_call.state_confidence) }

(***************************************************************************)
(* C17: detect_state returns, among all candidate states, the one with the *)
(* highest average confidence over its found templates; when several       *)
(* candidates have the same highest average, the one whose rule was        *)
(* registered first is returned (also after a rule of an already           *)
(* registered state was replaced by register_state_definition: the state   *)
(* keeps the place of its first registration).                             *)
(***************************************************************************)
HighestAverageFirst(i, image) ==
    /\ \A j \in CandidateRules(image) : ~ LowerAverage(i, j, image)
    /\ \A j \in CandidateRules(image) : j < i => LowerAverage(j, i, image)

C17_HighestAverageFirstRegistered ==
    /\ [] ( (Detected /\ CandidateRules(last_call.arg) # {}) =>
              \E i \in CandidateRules(last_call.arg) :
                  /\ last_call.ret = state_definitions[i].state
                  /\ HighestAverageFirst(i, last_call.arg) )
    /\ [][ last_call'.op = "register_state_definition" =>
             StatesOf(state_definitions') =
                 IF \E i \in 1 .. Len(state_definitions) :
                        state_definitions[i].state = last_call'.arg.state
                 THEN StatesOf(state_definitions)
                 ELSE Append(StatesOf(state_definitions), last_call'.arg.state)
         ]_vars

\* HOME_SCREEN, whose rule was replaced after SHOP was registered, and SHOP
\* have the same average; HOME_SCREEN is returned.
C17_Witness ==
    /\ Detected /\ last_call.arg = ImgTie
    /\ state_definitions[1] \in RuleInputs
    /\ state_definitions[1].state = "HOME_SCREEN"
    /\ {1, 3} \subseteq CandidateRules(ImgTie)
    /\ ~ LowerAverage(1, 3, ImgTie) /\ ~ LowerAverage(3, 1, ImgTie)
    /\ last_call.ret = "HOME_SCREEN"

(***************************************************************************)
(* C18, as stated: detect_state returns GameState.UNKNOWN exactly when no  *)
(* registered rule yields a candidate; in particular it returns UNKNOWN    *)
(* when no required template of any rule is found in the frame, and it     *)
(* never returns a state that has no registered rule other than UNKNOWN.   *)
(***************************************************************************)
C18_UnknownIffNoCandidate ==
    Detected =>
        /\ last_call.ret = "UNKNOWN" <=> CandidateRules(last_call.arg) = {}
        /\ last_call.ret # "UNKNOWN" =>
               \E i \in 1 .. Len(state_definitions) :
                   state_definitions[i].state = last_call.ret

(***************************************************************************)
(* C18, amended: detect_state returns GameState.UNKNOWN whenever no        *)
(* registered rule yields a candidate (in particular when no required      *)
(* template of any rule is found in the frame); otherwise it returns the   *)
(* state of a rule that yields a candidate, which is UNKNOWN only if that  *)
(* rule was registered for UNKNOWN itself.                                 *)
(***************************************************************************)
C18_UnknownWithoutCandidate ==
    Detected =>
        /\ CandidateRules(last_call.arg) = {} => last_call.ret = "UNKNOWN"
        /\ CandidateRules(last_call.arg) # {} =>
               \E i \in CandidateRules(last_call.arg) :
                   state_definitions[i].state = last_call.ret

\* A required template is found, but its match-all rule is not satisfied and
\* no other rule yields a candidate.
C18_Witness ==
    /\ Detected /\ last_call.ret = "UNKNOWN"
    /\ CandidateRules(last_call.arg) = {}
    /\ \E i \in 1 .. Len(state_definitions) :
           FoundOf(state_definitions[i], last_call.arg) # {}

(***************************************************************************)
(* C19, as stated: a state with a match-all rule is a candidate of         *)
(* detect_state only when every one of its required templates is found at  *)
(* the rule's threshold; with 2 required templates and only one found, the *)
(* state is not a candidate and is never returned, whatever the confidence *)
(* of the single match.                                                    *)
(***************************************************************************)
\* Rule i is a match-all rule of which some required template is not found.
Incomplete(i, image) ==
    /\ state_definitions[i].match_all
    /\ FoundOf(state_definitions[i], image) #
           1 .. Len(state_definitions[i].required_templates)

\* Some, but not all, of the required templates of match-all rule i are found.
PartlyFound(i, image) ==
    Incomplete(i, image) /\ FoundOf(state_definitions[i], image) # {}

C19_MatchAllNeedsAll ==
    Detected =>
        \A i \in 1 .. Len(state_definitions) :
            /\ Incomplete(i, last_call.arg) =>
                   state_definitions[i].state \notin ConfidenceStates
            /\ PartlyFound(i, last_call.arg) =>
                   last_call.ret # state_definitions[i].state

(***************************************************************************)
(* C19, amended: a state with a match-all rule is a candidate of           *)
(* detect_state only when every one of its required templates is found at  *)
(* the rule's threshold; with 2 required templates and only one found, the *)
(* state is not a candidate whatever the confidence of the single match,   *)
(* and it is not returned unless it is UNKNOWN, which detect_state returns *)
(* when no rule yields a candidate.                                        *)
(***************************************************************************)
C19_MatchAllNeedsAllButUnknown ==
    Detected =>
        \A i \in 1 .. Len(state_definitions) :
            /\ Incomplete(i, last_call.arg) =>
                   state_definitions[i].state \notin ConfidenceStates
            /\ ( /\ PartlyFound(i, last_call.arg)
                 /\ last_call.ret = state_definitions[i].state )
               => ( /\ last_call.ret = "UNKNOWN"
                    /\ last_call.state_confidence = <<>> )

\* One of the two templates of HOME_SCREEN is found with confidence 0.99;
\* BATTLE, with an average of 0.72, is returned.
C19_Witness ==
    /\ Detected /\ last_call.arg = ImgHalf
    /\ state_definitions[1].state = "HOME_SCREEN"
    /\ PartlyFound(1, ImgHalf)
    /\ Len(state_definitions[1].required_templates) = 2
    /\ Cardinality(FoundOf(state_definitions[1], ImgHalf)) = 1
    /\ last_call.ret = "BATTLE"

(***************************************************************************)
(* C20: a state with a match-any rule is a candidate of detect_state as    *)
(* soon as at least one required template is found at the rule's           *)
(* threshold, and its confidence is the average over the found templates   *)
(* only: with 2 required templates and exactly one found, the confidence   *)
(* equals that one match's score.                                          *)
(***************************************************************************)
C20_MatchAnyAveragesFound ==
    Detected =>
        \A i \in 1 .. Len(state_definitions) :
            ( /\ ~ state_definitions[i].match_all
              /\ FoundOf(state_definitions[i], last_call.arg) # {} )
            => \E k \in 1 .. Len(last_call.state_confidence) :
                 LET entry == last_call.state_confidence[k]
                 IN  /\ entry.state = state_definitions[i].state
                     /\ entry.total
                            * Cardinality(FoundOf(state_definitions[i],
                                                  last_call.arg))
                        = SumOfFound(state_definitions[i], last_call.arg, 1)
                            * entry.matched

\* Of the two templates of SHOP only the title is found, with score 0.90.
C20_Witness ==
    /\ Detected /\ last_call.arg = ImgShop
    /\ \E i \in 1 .. Len(state_definitions) :
           /\ state_definitions[i].state = "SHOP"
           /\ ~ state_definitions[i].match_all
           /\ Len(state_definitions[i].required_templates) = 2
           /\ FoundOf(state_definitions[i], ImgShop) = {1}
    /\ \E k \in 1 .. Len(last_call.state_confidence) :
           /\ last_call.state_confidence[k].state = "SHOP"
           /\ last_call.state_confidence[k].total = 90
           /\ last_call.state_confidence[k].matched = 1
    /\ last_call.ret = "SHOP"

(***************************************************************************)
(* What a frame holds for a template, told from the frame alone.           *)
(***************************************************************************)
FoundMany == last_call.op = "find_template" /\ last_call.multiple

FoundOne == last_call.op = "find_template" /\ ~ last_call.multiple

\* The rectangles of two candidates have a pixel in common.
Overlap(a, b) ==
    /\ a.top_left[1] < b.bottom_right[1] /\ b.top_left[1] < a.bottom_right[1]
    /\ a.top_left[2] < b.bottom_right[2] /\ b.top_left[2] < a.bottom_right[2]

\* The identifier is loaded and its template fits the frame.
Searchable(image, template_name) ==
    /\ template_name \in DOMAIN templates
    /\ templates[template_name].h <= image.shape.h
    /\ templates[template_name].w <= image.shape.w

\* The places where the template can lie in the frame.
Places(image, template_name) ==
    (0 .. image.shape.w - templates[template_name].w) \X
    (0 .. image.shape.h - templates[template_name].h)

\* How well the template matches at the place, whatever the method: the
\* correlation itself, or 1 minus the distance 1 - correlation.
OrientedScore(image, template_name, place) ==
    LET here == { sp \in image.sprites : /\ sp.name = template_name
                                         /\ <<sp.x, sp.y>> = place }
    IN  IF here = {} THEN 0 ELSE (CHOOSE sp \in here : TRUE).score

BestOriented(image, template_name) ==
    LET scores == { OrientedScore(image, template_name, place) :
                      place \in Places(image, template_name) }
    IN  CHOOSE v \in scores : \A w \in scores : w <= v

\* The instances of the template in the frame: the places of its sprites.
Instances(image, template_name) ==
    { <<sp.x, sp.y>> : sp \in { q \in image.sprites : q.name = template_name } }

\* Any two instances are further apart than the template and the mask reach.
WellSeparated(image, template_name) ==
    \A p, q \in Instances(image, template_name) :
        p # q => \/ p[1] - q[1] > templates[template_name].w + mask_size
                 \/ q[1] - p[1] > templates[template_name].w + mask_size
                 \/ p[2] - q[2] > templates[template_name].h + mask_size
                 \/ q[2] - p[2] > templates[template_name].h + mask_size

EquallyScoring(image, template_name) ==
    \A p, q \in Instances(image, template_name) :
        OrientedScore(image, template_name, p) =
            OrientedScore(image, template_name, q)

(***************************************************************************)
(* C21: find_template(multiple=True) returns at most max_results           *)
(* candidates, every one with confidence >= threshold, and the bounding    *)
(* rectangles of any two returned candidates do not overlap; this holds    *)
(* for every matching method (correlation-style and difference-style) and  *)
(* every threshold in [0,1].                                               *)
(***************************************************************************)
C21_ManyDoNotOverlap ==
    FoundMany =>
        /\ Len(last_call.ret) <= last_call.max_results
        /\ \A i \in 1 .. Len(last_call.ret) :
               last_call.ret[i].confidence >= last_call.threshold
        /\ \A i, j \in 1 .. Len(last_call.ret) :
               i # j => ~ Overlap(last_call.ret[i], last_call.ret[j])

(***************************************************************************)
(* C22: when a frame contains more well-separated, equally scoring         *)
(* instances of a template above threshold than max_results,               *)
(* find_template(multiple=True) returns exactly max_results candidates,    *)
(* each located at a different instance (max_results=3 on 5 instances      *)
(* gives exactly 3).                                                       *)
(***************************************************************************)
MoreInstancesThanResults ==
    /\ FoundMany
    /\ Searchable(last_call.image, last_call.template_name)
    /\ WellSeparated(last_call.image, last_call.template_name)
    /\ EquallyScoring(last_call.image, last_call.template_name)
    /\ \A p \in Instances(last_call.image, last_call.template_name) :
           OrientedScore(last_call.image, last_call.template_name, p)
               >= last_call.threshold
    /\ Cardinality(Instances(last_call.image, last_call.template_name))
           > last_call.max_results

C22_ExactlyMaxResults ==
    MoreInstancesThanResults =>
        /\ Len(last_call.ret) = last_call.max_results
        /\ \A i \in 1 .. Len(last_call.ret) :
               last_call.ret[i].top_left
                   \in Instances(last_call.image, last_call.template_name)
        /\ \A i, j \in 1 .. Len(last_call.ret) :
               i # j => last_call.ret[i].top_left # last_call.ret[j].top_left

(***************************************************************************)
(* C23: find_template for an identifier that is not loaded, or for a       *)
(* template taller or wider than the frame, returns the no-match result    *)
(* (None for single, empty list for multiple) for every threshold and      *)
(* method, raises no exception, and leaves the template store unchanged.   *)
(***************************************************************************)
C23_NoMatchWhenUnsearchable ==
    /\ [] ( ( /\ last_call.op = "find_template"
              /\ ~ Searchable(last_call.image, last_call.template_name) )
            => last_call.ret = IF last_call.multiple THEN <<>> ELSE NoMatch )
    /\ [][ last_call'.op = "find_template" => templates' = templates ]_vars

\* The shop icon is searched under an identifier that is not loaded, in a
\* frame that shows it, with threshold 0.
C23_Witness ==
    /\ FoundOne /\ last_call.template_name \notin DOMAIN templates
    /\ last_call.image = FrameRow /\ last_call.threshold = 0
    /\ last_call.ret = NoMatch

(***************************************************************************)
(* C24: find_template(multiple=False) returns a candidate exactly when the *)
(* best oriented score is >= threshold, where the oriented score is the    *)
(* maximum of the score surface for correlation-style methods and 1 minus  *)
(* the minimum raw distance for the difference-style method; the returned  *)
(* candidate is located at that best position and carries that oriented    *)
(* score as confidence.                                                    *)
(***************************************************************************)
C24_BestOrientedScore ==
    (FoundOne /\ Searchable(last_call.image, last_call.template_name)) =>
        /\ last_call.ret.found <=>
               BestOriented(last_call.image, last_call.template_name)
                   >= last_call.threshold
        /\ last_call.ret.found =>
               /\ last_call.ret.confidence =
                      BestOriented(last_call.image, last_call.template_name)
               /\ OrientedScore(last_call.image, last_call.template_name,
                                last_call.ret.top_left)
                      = last_call.ret.confidence

\* The difference-style method finds the better of two icons.
C24_Witness ==
    /\ FoundOne /\ last_call.method = "SQDIFF"
    /\ last_call.image = FrameTwo /\ last_call.threshold = 80
    /\ last_call.ret.found /\ last_call.ret.top_left = <<14, 0>>
    /\ last_call.ret.confidence = 85

(***************************************************************************)
(* C25: navigate_to, whether it returns True or False, leaves the set of   *)
(* registered transitions and the detector's rules unchanged, so a later   *)
(* navigate_to on the same instance computes paths over the same graph; a  *)
(* failed attempt followed by a second attempt whose detections all match  *)
(* succeeds.                                                               *)
(***************************************************************************)
\* A call that came after a failed one has returned; a path led from the
\* state detected at its start to the target, and no detection mismatched.
SecondAttemptMatches ==
    /\ pc = "idle" /\ nav.failed /\ nav.result \in {"True", "False"}
    /\ MinHops(transitions, Log[1].state, nav.target) >= 0
    /\ \A k \in 1 .. Len(Log) : ~ Mismatch(k)

\* Every step that starts or continues a call changes pc or the locals.
C25_GraphAndRulesKept ==
    /\ [][ (nav' # nav \/ pc' # pc) =>
             UNCHANGED <<transitions, state_definitions>> ]_vars
    /\ [] (SecondAttemptMatches => nav.result = "True")

\* After a failed attempt an attempt of at least one hop arrived.
C25_Witness ==
    /\ Returns("True") /\ nav.failed
    /\ Len(nav.path) >= 1
    /\ \A h \in 1 .. Len(nav.path) : HopVerified(h)

(***************************************************************************)
(* C28: when navigate_to starts the actions of a hop, the state manager's  *)
(* current_state equals that hop's transition.from_state: the first hop    *)
(* starts at the state detected at the start of the call, every later hop  *)
(* at the verified to_state of the hop before it.                          *)
(***************************************************************************)
\* The call is inside hop nav.hop: its actions or its sleep are still to run.
InsideHop == pc \in {"actions", "sleep"}

C28_HopStartsAtCurrentState ==
    InsideHop =>
        /\ nav.hop \in 1 .. Len(nav.path)
        /\ current_state = nav.path[nav.hop].from_state
        /\ nav.hop = 1 => current_state = Log[1].state

\* The second hop of a path is about to run its first action.
C28_Witness ==
    /\ pc = "actions" /\ nav.hop = 2 /\ nav.ai = 1
    /\ current_state = nav.path[2].from_state
    /\ nav.path[1].to_state = current_state

(***************************************************************************)
(* C27: find_path terminates on every registered graph, cycles and         *)
(* self-loops included: a state enters the queue at most once, so the      *)
(* while loop runs at most once per state; the path returned visits no     *)
(* state twice and has at most |GameState| - 1 transitions.                *)
(***************************************************************************)
RECURSIVE EnqueuedBy(_, _, _, _)
\* The states that the search appends to the queue, in order, from the
\* moment the queue and the visited set are as given.
EnqueuedBy(T, target_state, queue, visited) ==
    IF queue = <<>> THEN <<>>
    ELSE LET r == ScanTransitions(T, target_state, Head(queue).state,
                                  Head(queue).path, 1, Tail(queue), visited)
             added == [k \in 1 .. (Len(r.queue) - Len(queue) + 1) |->
                          r.queue[Len(queue) - 1 + k].state]
         IN  IF r.found THEN added
             ELSE added \o EnqueuedBy(T, target_state, r.queue, r.visited)

\* Every state that is ever in the queue of find_path, the start first.
Enqueued(T, cur, target_state) ==
    IF cur = target_state THEN <<>>
    ELSE <<cur>> \o EnqueuedBy(T, target_state,
                               <<[state |-> cur, path |-> <<>>]>>, {cur})

NoRepeat(seq) ==
    \A i, j \in 1 .. Len(seq) : i < j => seq[i] # seq[j]

\* The states along a path that starts at cur.
PathStates(cur, p) == <<cur>> \o [i \in 1 .. Len(p) |-> p[i].to_state]

SearchIsBounded(T, cur, target_state, path, enqueued) ==
    /\ NoRepeat(enqueued)
    /\ Len(enqueued) <= Cardinality(GameState)
    /\ ~ path.is_none =>
          /\ NoRepeat(PathStates(cur, path.list))
          /\ Len(path.list) <= Cardinality(GameState) - 1

C27_SearchVisitsOnce ==
    \A target_state \in GameState :
        SearchIsBounded(transitions, current_state, target_state,
                        find_path(transitions, current_state, target_state),
                        Enqueued(transitions, current_state, target_state))

SelfLoopAt(T, s) ==
    \E i \in 1 .. Len(T) : T[i].from_state = s /\ T[i].to_state = s

\* A path of two hops was found in a graph where a state with a self-loop,
\* which also lies on a cycle through SHOP, was in the queue.
C27_Witness ==
    /\ FoundPath /\ Len(last_call.ret.list) >= 2
    /\ last_call.ret = find_path(transitions, current_state, last_call.arg)
    /\ \E k \in 2 .. Len(Enqueued(transitions, current_state, last_call.arg)) :
          SelfLoopAt(transitions,
                     Enqueued(transitions, current_state, last_call.arg)[k])

(***************************************************************************)
(* C29: after any sequence of update_state calls on a StateManager, a      *)
(* non-empty history ends with current_state, consecutive history entries  *)
(* name different states, previous_state, once set, differs from           *)
(* current_state, and the history has one entry per update_state call that *)
(* returned True.                                                          *)
(***************************************************************************)
HistoryState(k) == state_history[k][1]

HistoryConsistent ==
    /\ state_history # <<>> => HistoryState(Len(state_history)) = current_state
    /\ \A k \in 1 .. (Len(state_history) - 1) :
          HistoryState(k) # HistoryState(k + 1)
    /\ previous_state # NoState => previous_state # current_state

\* The step is an update_state call that returns True.
ReturnsChanged == last_call'.op = "update_state" /\ last_call'.ret

C29_HistoryInvariants ==
    /\ [] HistoryConsistent
    /\ [][ Len(state_history') =
             Len(state_history) + (IF ReturnsChanged THEN 1 ELSE 0) ]_vars

\* Two calls returned True; the second one came back to the initial state.
C29_Witness ==
    /\ last_call.op = "update_state" /\ last_call.ret
    /\ Len(state_history) = 2
    /\ HistoryState(1) # "UNKNOWN" /\ HistoryState(2) = "UNKNOWN"
    /\ current_state = "UNKNOWN" /\ previous_state = HistoryState(1)

(***************************************************************************)
(* C26: the navigation session state (current state, previous state,       *)
(* history, dwell-start timestamp) changes only in StateManager.           *)
(* update_state as called from the detection cycle; register_transition,   *)
(* find_path, can_transition_to, get_reachable_states, detect_state,       *)
(* verify_state and the matcher calls leave it unchanged.                  *)
(***************************************************************************)
SessionState ==
    <<current_state, previous_state, state_history, stable_state_time>>

\* The step is a detection cycle whose detection differs from current_state.
CycleChangesState ==
    /\ last_call'.op = "detection_cycle" /\ ~ last_call'.raised
    /\ last_call'.ret # current_state
    /\ current_state' = last_call'.ret
    /\ previous_state' = current_state

C26_SessionChangesOnlyInCycle ==
    [][ SessionState' # SessionState => CycleChangesState ]_vars

\* verify_state saw another state than the current one, which two detection
\* cycles had set, and the session kept its state.
C26_Witness ==
    /\ last_call.op = "verify_state" /\ ~ last_call.ret
    /\ last_call.arg[1] = current_state
    /\ Len(state_history) = 2

(***************************************************************************)
(* C30: in the GUI at most one background job (template capture, framework *)
(* test, or automation run with navigate_to) runs at a time: starting a    *)
(* job disables every button before the worker thread starts, and the      *)
(* buttons are re-enabled only after the worker function has finished,     *)
(* also when it raised an exception.                                       *)
(***************************************************************************)
\* The threads whose func has not finished yet.
JobsRunning ==
    { i \in 1 .. Len(gui.threads) : gui.threads[i].at \in {"start", "run"} }

AllButtons(state) == \A b \in ButtonNames : gui.state[b] = state

SomeEnabled == \E b \in ButtonNames : gui.state[b] = "normal"

EnablePending ==
    \E k \in 1 .. Len(gui.after) : gui.after[k] = "_enable_buttons"

\* While the buttons are disabled, a thread has still to schedule
\* _enable_buttons or the callback waits in the main loop.
OneJobAtATime ==
    /\ Cardinality(JobsRunning) <= 1
    /\ Len(gui.threads) <= 1
    /\ JobsRunning # {} => AllButtons("disabled")
    /\ ~ AllButtons("normal") => (gui.threads # <<>> \/ EnablePending)

C30_OneBackgroundJob ==
    /\ [] OneJobAtATime
    /\ [][ Len(gui.threads') > Len(gui.threads) =>
             AllButtons("normal") /\ AllButtons("disabled")' ]_vars
    /\ [][ (~ SomeEnabled /\ SomeEnabled') =>
             /\ gui.threads = <<>> /\ gui.threads' = <<>>
             /\ AllButtons("normal")' ]_vars

\* The automation job raised inside navigate_to, its thread has ended, and
\* the buttons, disabled since the click, are about to be enabled again.
C30_Witness ==
    /\ nav.result = "raised" /\ nav.target = "SHOP"
    /\ gui.threads = <<>>
    /\ gui.after = <<"_enable_buttons">>
    /\ AllButtons("disabled")

====
